---- MODULE Spec2Model ----
(***************************************************************************)
(* The tool-calling orchestration of the function_calling_* scripts:       *)
(* the hardened single round trip (function_calling_extended_errors,       *)
(* function_calling_fewshots and their Spanish counterparts), the          *)
(* continuous loop (function_calling_while_loop) and the parallel          *)
(* dispatch on a thread pool (function_calling_parallel).                  *)
(*                                                                         *)
(* Python values are records [t |-> <type name>, v |-> <payload>]: a str   *)
(* carries its text, an int or float its literal, a list its elements, a   *)
(* dict its (key, value) pairs in insertion order.  A text is a sequence   *)
(* of chunks (the pieces an f-string or an encoder joins); the empty text  *)
(* is the empty sequence.                                                  *)
(***************************************************************************)
EXTENDS Integers, Sequences, FiniteSets, TLC

\* Tool-call requests the model endpoint issues in one run, all turns together.
MaxCalls == 2

---------------------------------------------------------------------------
(* Python values *)

PyNone == [t |-> "NoneType", v |-> <<>>]
PyStr(chunks) == [t |-> "str", v |-> chunks]
Str(s) == PyStr(<<s>>)
PyInt(lit) == [t |-> "int", v |-> <<lit>>]
PyFloat(lit) == [t |-> "float", v |-> <<lit>>]
PyList(elems) == [t |-> "list", v |-> elems]
PyDict(items) == [t |-> "dict", v |-> items]

\* bool(x): None, "", 0, [] and {} are falsy.
Truthy(x) ==
    CASE x.t = "NoneType" -> FALSE
      [] x.t \in {"str", "list", "dict"} -> x.v # <<>>
      [] x.t = "int" -> x.v # <<"0">>
      [] x.t = "float" -> x.v # <<"0.0">>
      [] OTHER -> TRUE

\* a or b
Or(a, b) == IF Truthy(a) THEN a ELSE b

Keys(d) == {d.v[k][1] : k \in 1..Len(d.v)}

\* d[key], for key in d
Get(d, key) == d.v[CHOOSE k \in 1..Len(d.v) : d.v[k][1] = key][2]

\* d.get(key): None when the key is missing
GetOrNone(d, key) == IF key \in Keys(d) THEN Get(d, key) ELSE PyNone

\* The outcome of a Python call: a return value, or a raised exception of
\* type `raised` whose str() is `value`; `entered` tells whether the body of
\* the called tool started to run.
Return(x) == [raised |-> "", value |-> x, entered |-> TRUE]
Raise(type, msg, entered) == [raised |-> type, value |-> PyStr(msg), entered |-> entered]
Raised(outcome) == outcome.raised # ""

---------------------------------------------------------------------------
(* The scripts *)

HardenedScripts ==
    {"function_calling_extended_errors", "function_calling_fewshots",
     "spanish/function_calling_errors", "spanish/function_calling_extended_errors",
     "spanish/function_calling_fewshots"}
LoopScripts == {"function_calling_while_loop", "spanish/function_calling_while_loop"}
ParallelScripts == {"function_calling_parallel", "spanish/function_calling_parallel"}
Scripts == HardenedScripts \cup LoopScripts \cup ParallelScripts

WeatherScripts == {"function_calling_extended_errors", "spanish/function_calling_extended_errors"}
FewshotScripts == {"function_calling_fewshots", "spanish/function_calling_fewshots"}

Spanish(script) ==
    script \in {"spanish/function_calling_errors", "spanish/function_calling_extended_errors",
                "spanish/function_calling_fewshots", "spanish/function_calling_while_loop",
                "spanish/function_calling_parallel"}

---------------------------------------------------------------------------
(* json *)

\* The argument texts the model endpoint is taken to produce, with the value
\* json.loads gives for each well-formed one.
JsonTexts ==
    << <<"{}", PyDict(<<>>)>>,
       <<"{\"city_name\": \"Berkeley\"}", PyDict(<< <<"city_name", Str("Berkeley")>> >>)>>,
       <<"{\"zip_code\": \"94704\"}", PyDict(<< <<"zip_code", Str("94704")>> >>)>>,
       <<"{\"city_name\": \"Berkeley\", \"units\": \"metric\"}",
         PyDict(<< <<"city_name", Str("Berkeley")>>, <<"units", Str("metric")>> >>)>>,
       <<"[\"Berkeley\"]", PyList(<<Str("Berkeley")>>)>>,
       <<"{\"search_query\": \"red shirt\"}", PyDict(<< <<"search_query", Str("red shirt")>> >>)>>,
       <<"{\"search_query\": \"\"}", PyDict(<< <<"search_query", PyStr(<<>>)>> >>)>>,
       <<"{\"search_query\": \"red shirt\", \"price_filter\": {\"comparison_operator\": \"<\", \"value\": 20}}",
         PyDict(<< <<"search_query", Str("red shirt")>>,
                   <<"price_filter", PyDict(<< <<"comparison_operator", Str("<")>>,
                                               <<"value", PyInt("20")>> >>)>> >>)>>,
       <<"{\"search_query\": \"red shirt\", \"price_filter\": {\"value\": 20}}",
         PyDict(<< <<"search_query", Str("red shirt")>>,
                   <<"price_filter", PyDict(<< <<"value", PyInt("20")>> >>)>> >>)>>,
       <<"{\"city_name\": \"Berkeley\", \"zip_code\": \"94704\"}",
         PyDict(<< <<"city_name", Str("Berkeley")>>, <<"zip_code", Str("94704")>> >>)>>,
       <<"{\"city_name\": \"Sídney\", \"zip_code\": \"2000\"}",
         PyDict(<< <<"city_name", Str("Sídney")>>, <<"zip_code", Str("2000")>> >>)>>,
       <<"{\"city_name\": \" \"}", PyDict(<< <<"city_name", Str(" ")>> >>)>>,
       <<"{\"city_name\": \"\", \"zip_code\": \"94704\"}",
         PyDict(<< <<"city_name", PyStr(<<>>)>>, <<"zip_code", Str("94704")>> >>)>>,
       <<"{\"city_name\": null, \"zip_code\": \"94704\"}",
         PyDict(<< <<"city_name", PyNone>>, <<"zip_code", Str("94704")>> >>)>>,
       <<"{\"city_name\": \"\", \"zip_code\": \"\"}",
         PyDict(<< <<"city_name", PyStr(<<>>)>>, <<"zip_code", PyStr(<<>>)>> >>)>>,
       <<"{\"city_name\": null, \"zip_code\": null}",
         PyDict(<< <<"city_name", PyNone>>, <<"zip_code", PyNone>> >>)>> >>

WellFormed == {JsonTexts[k][1] : k \in 1..Len(JsonTexts)}

\* Whitespace-only texts and texts that are no JSON document.
BlankTexts == {" ", "  \n"}
MalformedTexts == {"{bad json", "{\"city_name\": "}

\* s.strip() of a text of this model: only the blank texts carry whitespace
\* at their ends.
strip(s) == IF s.v # <<>> /\ \A k \in 1..Len(s.v) : s.v[k] \in BlankTexts THEN PyStr(<<>>) ELSE s

\* json.loads(s): the decoded value; JSONDecodeError for the empty, blank and
\* malformed texts; TypeError when s is not a str.
json_loads(s) ==
    IF s.t # "str"
    THEN Raise("TypeError", <<"the JSON object must be str, bytes or bytearray, not ", s.t>>, FALSE)
    ELSE IF Len(s.v) = 1 /\ s.v[1] \in WellFormed
    THEN Return(JsonTexts[CHOOSE k \in 1..Len(JsonTexts) : JsonTexts[k][1] = s.v[1]][2])
    ELSE Raise("JSONDecodeError", <<"Expecting value">>, FALSE)

\* Non-ASCII chunks of the scripts' texts, as json.dumps writes them with
\* ensure_ascii (its default).
AsciiEscapes ==
    << <<"ERROR: No hay implementación registrada para la tool '",
         "ERROR: No hay implementaci\\u00f3n registrada para la tool '">>,
       <<"ERROR: No hay implementación registrada para la herramienta '",
         "ERROR: No hay implementaci\\u00f3n registrada para la herramienta '">>,
       <<"Warning: JSON arguments malformados; sigo con args vacíos",
         "Warning: JSON arguments malformados; sigo con args vac\\u00edos">>,
       <<"Advertencia: JSON de argumentos malformado; se continúa con argumentos vacíos",
         "Advertencia: JSON de argumentos malformado; se contin\\u00faa con argumentos vac\\u00edos">>,
       <<"¡Gran día para estar al aire libre!", "\\u00a1Gran d\\u00eda para estar al aire libre!">>,
       <<"Buen día para actividades bajo techo si no te gusta la llovizna.",
         "Buen d\\u00eda para actividades bajo techo si no te gusta la llovizna.">>,
       <<"El Arrecife Cuántico", "El Arrecife Cu\\u00e1ntico">>,
       <<"Tormenta Sobre Bahía Puerto", "Tormenta Sobre Bah\\u00eda Puerto">>,
       <<"comparison_operator inválido en price_filter",
         "comparison_operator inv\\u00e1lido en price_filter">>,
       <<"value en price_filter debe ser numérico", "value en price_filter debe ser num\\u00e9rico">>,
       <<"Sídney", "S\\u00eddney">> >>

EscapeChunk(c, ensure_ascii) ==
    IF ensure_ascii /\ \E k \in 1..Len(AsciiEscapes) : AsciiEscapes[k][1] = c
    THEN AsciiEscapes[CHOOSE k \in 1..Len(AsciiEscapes) : AsciiEscapes[k][1] = c][2]
    ELSE c

RECURSIVE Join(_, _)
\* sep.join(texts), texts a sequence of chunk sequences
Join(texts, sep) ==
    IF texts = <<>> THEN <<>>
    ELSE IF Len(texts) = 1 THEN texts[1]
    ELSE texts[1] \o <<sep>> \o Join(Tail(texts), sep)

JsonTypes == {"NoneType", "str", "int", "float", "list", "dict"}

RECURSIVE Serializable(_)
\* Whether json.dumps accepts x: every value in it is of a JSON type.
Serializable(x) ==
    /\ x.t \in JsonTypes
    /\ x.t = "list" => \A k \in 1..Len(x.v) : Serializable(x.v[k])
    /\ x.t = "dict" => \A k \in 1..Len(x.v) : Serializable(x.v[k][2])

RECURSIVE Encode(_, _)
\* The text json.dumps writes for a serializable x.
Encode(x, ensure_ascii) ==
    CASE x.t = "NoneType" -> <<"null">>
      [] x.t = "str" ->
           <<"\"">> \o [k \in 1..Len(x.v) |-> EscapeChunk(x.v[k], ensure_ascii)] \o <<"\"">>
      [] x.t \in {"int", "float"} -> x.v
      [] x.t = "list" ->
           <<"[">> \o Join([k \in 1..Len(x.v) |-> Encode(x.v[k], ensure_ascii)], ", ") \o <<"]">>
      [] x.t = "dict" ->
           <<"{">> \o Join([k \in 1..Len(x.v) |->
                              Encode(Str(x.v[k][1]), ensure_ascii) \o <<": ">>
                                \o Encode(x.v[k][2], ensure_ascii)], ", ") \o <<"}">>

\* json.dumps(x, ensure_ascii=...)
json_dumps(x, ensure_ascii) ==
    IF Serializable(x)
    THEN Return(PyStr(Encode(x, ensure_ascii)))
    ELSE Raise("TypeError", <<"Object of type ", x.t, " is not JSON serializable">>, FALSE)

---------------------------------------------------------------------------
(* The tools *)

\* The binding of the keyword arguments of fn(**kwargs) to fn's parameters:
\* "" when the call binds, else the TypeError's message.
BindError(fn, params, required, kwargs) ==
    IF kwargs.t # "dict"
    THEN <<"__main__.", fn, "() argument after ** must be a mapping, not ", kwargs.t>>
    ELSE IF \E k \in 1..Len(kwargs.v) : kwargs.v[k][1] \notin params
    THEN LET k == CHOOSE j \in 1..Len(kwargs.v) :
                     /\ kwargs.v[j][1] \notin params
                     /\ \A h \in 1..(j - 1) : kwargs.v[h][1] \in params
         IN <<fn, "() got an unexpected keyword argument '", kwargs.v[k][1], "'">>
    ELSE IF \E r \in required : r \notin Keys(kwargs)
    THEN <<fn, "() missing 1 required positional argument: '",
           CHOOSE r \in required : r \notin Keys(kwargs), "'">>
    ELSE <<>>

\* lookup_weather that prefers the zip code: zip_code or city_name or the
\* placeholder.
lookup_weather_ZipFirst(script, kwargs) ==
    LET err == BindError("lookup_weather", {"city_name", "zip_code"}, {}, kwargs)
        city_name == GetOrNone(kwargs, "city_name")
        zip_code == GetOrNone(kwargs, "zip_code")
        placeholder == IF script \in {"spanish/function_calling_extended_errors",
                                      "spanish/function_calling_while_loop"}
                       THEN Str("desconocido") ELSE Str("unknown")
        location == Or(Or(zip_code, city_name), placeholder)
    IN IF err # <<>> THEN Raise("TypeError", err, FALSE)
       ELSE CASE script = "function_calling_extended_errors" ->
                   Return(PyDict(<< <<"location", location>>,
                                    <<"weather", Str("sunny")>>,
                                    <<"temperature_f", PyInt("75")>>,
                                    <<"advice", Str("Great day to be outside!")>> >>))
              [] script = "spanish/function_calling_extended_errors" ->
                   Return(PyDict(<< <<"ubicacion", location>>,
                                    <<"clima", Str("soleado")>>,
                                    <<"temperatura_f", PyInt("75")>>,
                                    <<"consejo", Str("¡Gran día para estar al aire libre!")>> >>))
              [] script = "spanish/function_calling_while_loop" ->
                   Return(PyDict(<< <<"ubicacion", location>>,
                                    <<"condicion", Str("chubascos")>>,
                                    <<"lluvia_mm_ult_24h", PyInt("7")>>,
                                    <<"recomendacion",
                                      Str("Buen día para actividades bajo techo si no te gusta la llovizna.")>> >>))
              [] OTHER ->
                   Return(PyDict(<< <<"location", location>>,
                                    <<"condition", Str("rain showers")>>,
                                    <<"rain_mm_last_24h", PyInt("7")>>,
                                    <<"recommendation",
                                      Str("Good day for indoor activities if you dislike drizzle.")>> >>))

\* lookup_weather(city_name=None, zip_code=None) of the script
lookup_weather(script, kwargs) ==
    LET err == BindError("lookup_weather", {"city_name", "zip_code"}, {}, kwargs)
        city_name == GetOrNone(kwargs, "city_name")
        zip_code == GetOrNone(kwargs, "zip_code")
        placeholder == IF script \in {"spanish/function_calling_extended_errors",
                                      "spanish/function_calling_while_loop"}
                       THEN Str("desconocido") ELSE Str("unknown")
        location == Or(Or(city_name, zip_code), placeholder)
    IN IF err # <<>> THEN Raise("TypeError", err, FALSE)
       ELSE CASE script = "function_calling_extended_errors" ->
                   Return(PyDict(<< <<"location", location>>,
                                    <<"weather", Str("sunny")>>,
                                    <<"temperature_f", PyInt("75")>>,
                                    <<"advice", Str("Great day to be outside!")>> >>))
              [] script = "spanish/function_calling_extended_errors" ->
                   Return(PyDict(<< <<"ubicacion", location>>,
                                    <<"clima", Str("soleado")>>,
                                    <<"temperatura_f", PyInt("75")>>,
                                    <<"consejo", Str("¡Gran día para estar al aire libre!")>> >>))
              [] script = "spanish/function_calling_while_loop" ->
                   Return(PyDict(<< <<"ubicacion", location>>,
                                    <<"condicion", Str("chubascos")>>,
                                    <<"lluvia_mm_ult_24h", PyInt("7")>>,
                                    <<"recomendacion",
                                      Str("Buen día para actividades bajo techo si no te gusta la llovizna.")>> >>))
              [] OTHER ->
                   Return(PyDict(<< <<"location", location>>,
                                    <<"condition", Str("rain showers")>>,
                                    <<"rain_mm_last_24h", PyInt("7")>>,
                                    <<"recommendation",
                                      Str("Good day for indoor activities if you dislike drizzle.")>> >>))

\* lookup_movies(city_name=None, zip_code=None) of the script
lookup_movies(script, kwargs) ==
    LET err == BindError("lookup_movies", {"city_name", "zip_code"}, {}, kwargs)
        city_name == GetOrNone(kwargs, "city_name")
        zip_code == GetOrNone(kwargs, "zip_code")
    IN IF err # <<>> THEN Raise("TypeError", err, FALSE)
       ELSE IF script = "spanish/function_calling_while_loop"
       THEN Return(PyDict(<<
              <<"ubicacion", Or(Or(city_name, zip_code), Str("desconocido"))>>,
              <<"peliculas", PyList(<<
                 PyDict(<< <<"titulo", Str("El Arrecife Cuántico")>>, <<"clasificacion", Str("PG-13")>> >>),
                 PyDict(<< <<"titulo", Str("Tormenta Sobre Bahía Puerto")>>, <<"clasificacion", Str("PG")>> >>),
                 PyDict(<< <<"titulo", Str("Koala de Medianoche")>>, <<"clasificacion", Str("R")>> >>) >>)>> >>))
       ELSE Return(PyDict(<<
              <<"location", Or(Or(city_name, zip_code), Str("unknown"))>>,
              <<"movies", PyList(<<
                 PyDict(<< <<"title", Str("The Quantum Reef")>>, <<"rating", Str("PG-13")>> >>),
                 PyDict(<< <<"title", Str("Storm Over Harbour Bay")>>, <<"rating", Str("PG")>> >>),
                 PyDict(<< <<"title", Str("Midnight Koala")>>, <<"rating", Str("R")>> >>) >>)>> >>))

\* search_database(search_query, price_filter=None) of the script
search_database(script, kwargs) ==
    LET err == BindError("search_database", {"search_query", "price_filter"}, {"search_query"}, kwargs)
        search_query == Get(kwargs, "search_query")
        price_filter == GetOrNone(kwargs, "price_filter")
        es == Spanish(script)
        ValueError(en_msg, es_msg) == Raise("ValueError", <<IF es THEN es_msg ELSE en_msg>>, TRUE)
    IN IF err # <<>> THEN Raise("TypeError", err, FALSE)
       ELSE IF ~Truthy(search_query)
       THEN ValueError("search_query is required", "search_query es requerido")
       ELSE IF Truthy(price_filter)
               /\ ("comparison_operator" \notin Keys(price_filter) \/ "value" \notin Keys(price_filter))
       THEN ValueError("Both comparison_operator and value are required in price_filter",
                       "Se requieren comparison_operator y value en price_filter")
       ELSE IF Truthy(price_filter)
               /\ Get(price_filter, "comparison_operator")
                    \notin {Str(">"), Str("<"), Str(">="), Str("<="), Str("=")}
       THEN ValueError("Invalid comparison_operator in price_filter",
                       "comparison_operator inválido en price_filter")
       ELSE IF Truthy(price_filter) /\ Get(price_filter, "value").t \notin {"int", "float"}
       THEN ValueError("Value in price_filter must be a number",
                       "value en price_filter debe ser numérico")
       ELSE Return(PyList(<< PyDict(<< <<"id", Str("123")>>,
                                       <<"name", Str(IF es THEN "Producto Ejemplo" ELSE "Example Product")>>,
                                       <<"price", PyFloat("19.99")>> >>) >>))

ToolNames == {"lookup_weather", "lookup_movies", "search_database"}

\* The names of the script's tool_mapping (available_functions in the
\* parallel scripts).
tool_mapping(script) ==
    IF script \in WeatherScripts THEN {"lookup_weather"}
    ELSE IF script \in LoopScripts \cup ParallelScripts THEN {"lookup_weather", "lookup_movies"}
    ELSE {"search_database"}

\* The names of the script's tool descriptors.
tools(script) ==
    IF script \in WeatherScripts THEN {"lookup_weather"}
    ELSE IF script \in LoopScripts \cup ParallelScripts THEN {"lookup_weather", "lookup_movies"}
    ELSE {"search_database"}

\* tool_mapping[fn_name](**kwargs)
Call(script, fn_name, kwargs) ==
    CASE fn_name = "lookup_weather" -> lookup_weather(script, kwargs)
      [] fn_name = "lookup_movies" -> lookup_movies(script, kwargs)
      [] fn_name = "search_database" -> search_database(script, kwargs)

---------------------------------------------------------------------------
(* Messages and the model endpoint *)

\* The value of a key a message dict does not have.
Absent == "<absent>"

Message(role, content) ==
    [role |-> role, content |-> content, tool_calls |-> <<>>, tool_call_id |-> Absent, name |-> Absent]
AssistantMessage(content, tool_calls) ==
    [role |-> "assistant", content |-> content, tool_calls |-> tool_calls,
     tool_call_id |-> Absent, name |-> Absent]
ToolMessage(tool_call_id, name, content) ==
    [role |-> "tool", content |-> content, tool_calls |-> <<>>,
     tool_call_id |-> tool_call_id, name |-> name]

ToolCall(id, name, arguments) ==
    [id |-> id, type |-> "function", function |-> [name |-> name, arguments |-> arguments]]

\* The initial `messages` of the script.
InitialMessages(script) ==
    CASE script = "function_calling_extended_errors" ->
           << Message("system", Str("You are a weather chatbot.")),
              Message("user", Str("is it sunny in berkeley CA?")) >>
      [] script = "spanish/function_calling_extended_errors" ->
           << Message("system", Str("Eres un chatbot de clima.")),
              Message("user", Str("¿Está soleado en Berkeley CA?")) >>
      [] script = "spanish/function_calling_errors" ->
           << Message("system", Str("Eres un assistant que ayuda a buscar productos.")),
              Message("user", Str("Búscame una camiseta roja que cueste menos de $20.")) >>
      [] script = "function_calling_fewshots" ->
           << Message("system", Str("You are a product search assistant.")),
              Message("user", Str("good options for climbing gear that can be used outside?")),
              AssistantMessage(PyStr(<<>>),
                << ToolCall("call_abc123", "search_database",
                            Str("{\"search_query\":\"climbing gear outside\"}")) >>),
              ToolMessage("call_abc123", "search_database",
                          Str("Search results for climbing gear that can be used outside: ...")),
              Message("user", Str("are there any shoes less than $50?")),
              AssistantMessage(PyStr(<<>>),
                << ToolCall("call_abc456", "search_database",
                            Str("{\"search_query\":\"tenis\",\"price_filter\":{\"comparison_operator\":\"<\",\"value\":50}}")) >>),
              ToolMessage("call_abc456", "search_database",
                          Str("Search results for shoes cheaper than 50: ...")),
              Message("user", Str("Find me a red shirt under $20.")) >>
      [] script = "spanish/function_calling_fewshots" ->
           << Message("system", Str("Eres un assistant que ayuda a buscar productos.")),
              Message("user", Str("¿Buenas opciones de equipo de escalada para usar afuera?")),
              AssistantMessage(PyStr(<<>>),
                << ToolCall("call_abc123", "search_database",
                            Str("{\"search_query\":\"equipo escalada exterior\"}")) >>),
              ToolMessage("call_abc123", "search_database",
                          json_dumps(PyDict(<< <<"result",
                              Str("Resultados de búsqueda para equipo de escalada exterior: ...")>> >>),
                            TRUE).value),
              Message("user", Str("¿Hay tenis por menos de $50?")),
              AssistantMessage(PyStr(<<>>),
                << ToolCall("call_abc456", "search_database",
                            Str("{\"search_query\":\"tenis\",\"price_filter\":{\"comparison_operator\":\"<\",\"value\":50}}")) >>),
              ToolMessage("call_abc456", "search_database",
                          json_dumps(PyDict(<< <<"result",
                              Str("Resultados de búsqueda para tenis más baratos que 50: ...")>> >>),
                            TRUE).value),
              Message("user", Str("Búscame una camiseta roja por menos de $20.")) >>
      [] script = "function_calling_while_loop" ->
           << Message("system", Str("You are a tourism chatbot.")),
              Message("user", Str("Is it rainy enough in Sydney to watch movies and which ones are on?")) >>
      [] script = "function_calling_parallel" ->
           << Message("system", Str("You are a tourism chatbot.")),
              Message("user", Str("is it rainy enough in sydney to watch movies and which ones are on?")) >>
      [] script = "spanish/function_calling_while_loop" ->
           << Message("system", Str("Eres un chatbot de turismo.")),
              Message("user", Str("¿Llueve lo suficiente en Sídney como para ir al cine y qué películas hay?")) >>
      [] OTHER ->
           << Message("system", Str("Eres un chatbot de turismo.")),
              Message("user",
                Str("¿Está lloviendo lo suficiente en Sídney como para ver películas y cuáles estan en los cines?")) >>

\* The (name, arguments) pairs the model endpoint may put in a tool-call
\* request to the script: each registered tool with absent, empty, blank,
\* malformed and well-formed arguments, and a tool the script does not
\* register.
CallMenu(script) ==
    IF script \in WeatherScripts
    THEN ({"lookup_weather"} \X
            {PyNone, PyStr(<<>>), Str(" "), Str("{bad json"), Str("[\"Berkeley\"]"),
             Str("{\"city_name\": \"Berkeley\"}"),
             Str("{\"city_name\": \"Berkeley\", \"units\": \"metric\"}")})
         \cup ({"lookup_movies"} \X {Str("{\"city_name\": \"Berkeley\"}"), Str("{bad json")})
    ELSE IF script \in LoopScripts
    THEN ({"lookup_weather"} \X
            {PyNone, PyStr(<<>>), Str(" "), Str("{bad json"), Str("{}"),
             Str("{\"city_name\": \"Berkeley\"}"),
             Str("{\"city_name\": \"Berkeley\", \"units\": \"metric\"}")})
         \cup ({"lookup_movies"} \X {Str("{\"zip_code\": \"94704\"}"), Str("[\"Berkeley\"]")})
         \cup ({"search_database"} \X {Str("{\"search_query\": \"red shirt\"}")})
    ELSE IF script \in ParallelScripts
    THEN ({"lookup_weather"} \X
            {PyNone, PyStr(<<>>), Str("{bad json"), Str("{}"),
             Str("{\"city_name\": \"Berkeley\"}"),
             Str("{\"city_name\": \"Berkeley\", \"units\": \"metric\"}")})
         \cup ({"lookup_movies"} \X {Str("{\"zip_code\": \"94704\"}"), Str("[\"Berkeley\"]")})
         \cup ({"search_database"} \X {Str("{\"search_query\": \"red shirt\"}")})
    ELSE ({"search_database"} \X
            {PyNone, PyStr(<<>>), Str("  \n"), Str("{\"city_name\": "),
             Str("{\"search_query\": \"\"}"),
             Str("{\"search_query\": \"red shirt\", \"price_filter\": {\"comparison_operator\": \"<\", \"value\": 20}}"),
             Str("{\"search_query\": \"red shirt\", \"price_filter\": {\"value\": 20}}")})
         \cup ({"lookup_weather"} \X {Str("{\"city_name\": \"Berkeley\"}"), Str("{bad json")})

\* The id the endpoint gives its n-th tool-call request of the run.
CallId(n) == "call_" \o ToString(n)

\* The assistant messages the endpoint may answer with, the run having been
\* issued `issued` tool-call requests so far: a plain answer (tool_calls None
\* or empty), or 1 .. MaxCalls - issued tool-call requests with distinct ids.
Responses(script, issued) ==
    {[content |-> Str("final answer"), tool_calls |-> tc] : tc \in {PyNone, PyList(<<>>)}}
    \cup UNION {
           {[content |-> PyNone,
             tool_calls |-> PyList([k \in 1..n |-> ToolCall(CallId(issued + k), pick[k][1], pick[k][2])])]
              : pick \in [1..n -> CallMenu(script)]}
           : n \in 1..(MaxCalls - issued)}

---------------------------------------------------------------------------
(* One tool call, as each family of scripts handles it.  The result is     *)
(* [raised, content, entered, kwargs]: the exception that escapes the      *)
(* handling ("" if none), the content of the tool message, whether the     *)
(* tool's body ran, and the keyword arguments it ran with.                 *)

Handled(content, entered, kwargs) ==
    [raised |-> "", content |-> content, entered |-> entered, kwargs |-> kwargs]
Escaped(type) ==
    [raised |-> type, content |-> PyNone, entered |-> FALSE, kwargs |-> PyNone]

NotFoundText(script, fn_name) ==
    CASE script = "spanish/function_calling_extended_errors" ->
           PyStr(<<"ERROR: No hay implementación registrada para la herramienta '", fn_name, "'">>)
      [] Spanish(script) ->
           PyStr(<<"ERROR: No hay implementación registrada para la tool '", fn_name, "'">>)
      [] OTHER -> PyStr(<<"ERROR: No implementation registered for tool '", fn_name, "'">>)

MalformedText(script) ==
    CASE script = "spanish/function_calling_extended_errors" ->
           Str("Advertencia: JSON de argumentos malformado; se continúa con argumentos vacíos")
      [] Spanish(script) -> Str("Warning: JSON arguments malformados; sigo con args vacíos")
      [] OTHER -> Str("Warning: Malformed JSON arguments received; proceeding with empty args")

ExecutionErrorText(script, fn_name, e) ==
    CASE script = "spanish/function_calling_extended_errors" ->
           PyStr(<<"Error ejecutando la herramienta ", fn_name, ": ">> \o e.v)
      [] Spanish(script) -> PyStr(<<"Error ejecutando la tool ", fn_name, ": ">> \o e.v)
      [] OTHER -> PyStr(<<"Tool execution error in ", fn_name, ": ">> \o e.v)

\* A value of a type json.dumps refuses (a set, bytes, a datetime, an
\* instance of a class): its payload is the pair of its str() and repr()
\* texts.
Opaque(type, str_text, repr_text) == [t |-> type, v |-> <<str_text, repr_text>>]

RECURSIVE repr(_)
\* repr(x), as chunks
repr(x) ==
    CASE x.t = "NoneType" -> <<"None">>
      [] x.t = "str" -> <<"'">> \o x.v \o <<"'">>
      [] x.t \in {"int", "float"} -> x.v
      [] x.t = "list" -> <<"[">> \o Join([k \in 1..Len(x.v) |-> repr(x.v[k])], ", ") \o <<"]">>
      [] x.t = "dict" ->
           <<"{">> \o Join([k \in 1..Len(x.v) |->
                              <<"'", x.v[k][1], "'", ": ">> \o repr(x.v[k][2])], ", ") \o <<"}">>
      [] OTHER -> <<x.v[2]>>

\* str(x): the text itself for a str, the str() text of an opaque value,
\* repr(x) for the rest.
str(x) ==
    CASE x.t = "str" -> x
      [] x.t \in JsonTypes -> PyStr(repr(x))
      [] OTHER -> PyStr(<<x.v[1]>>)

\* The serialization of tool_result with its fallback envelope.
ToolContent(script, tool_result) ==
    LET ensure_ascii == script # "spanish/function_calling_extended_errors"
        key == IF script = "spanish/function_calling_extended_errors" THEN "resultado" ELSE "result"
        dumped == json_dumps(tool_result, ensure_ascii)
    IN IF Raised(dumped)
       THEN json_dumps(PyDict(<< <<key, str(tool_result)>> >>), ensure_ascii).value
       ELSE dumped.value

\* HardenedToolCall with json.loads outside any try: a decode error escapes.
HardenedToolCall_UnguardedDecode(script, tool_call) ==
    LET fn_name == tool_call.function.name
        raw_args == Or(tool_call.function.arguments, Str("{}"))
        parsed == IF Truthy(strip(raw_args)) THEN json_loads(raw_args) ELSE Return(PyDict(<<>>))
        called == Call(script, fn_name, parsed.value)
    IN IF fn_name \notin tool_mapping(script)
       THEN Handled(ToolContent(script, NotFoundText(script, fn_name)), FALSE, PyNone)
       ELSE IF Raised(parsed)
       THEN Escaped(parsed.raised)
       ELSE IF Raised(called)
       THEN Handled(ToolContent(script, ExecutionErrorText(script, fn_name, called.value)),
                    called.entered, parsed.value)
       ELSE Handled(ToolContent(script, called.value), TRUE, parsed.value)

\* HardenedToolCall with tool_mapping[fn_name] for tool_mapping.get(fn_name):
\* an unregistered name raises KeyError.
HardenedToolCall_UnguardedLookup(script, tool_call) ==
    LET fn_name == tool_call.function.name
        raw_args == Or(tool_call.function.arguments, Str("{}"))
        parsed == IF Truthy(strip(raw_args)) THEN json_loads(raw_args) ELSE Return(PyDict(<<>>))
        called == Call(script, fn_name, parsed.value)
    IN IF fn_name \notin tool_mapping(script)
       THEN Escaped("KeyError")
       ELSE IF parsed.raised = "JSONDecodeError"
       THEN Handled(ToolContent(script, MalformedText(script)), FALSE, PyNone)
       ELSE IF Raised(parsed)
       THEN Escaped(parsed.raised)
       ELSE IF Raised(called)
       THEN Handled(ToolContent(script, ExecutionErrorText(script, fn_name, called.value)),
                    called.entered, parsed.value)
       ELSE Handled(ToolContent(script, called.value), TRUE, parsed.value)

\* HardenedToolCall with target(**parsed_args) outside any try: the tool's
\* exception escapes.
HardenedToolCall_UnguardedCall(script, tool_call) ==
    LET fn_name == tool_call.function.name
        raw_args == Or(tool_call.function.arguments, Str("{}"))
        parsed == IF Truthy(strip(raw_args)) THEN json_loads(raw_args) ELSE Return(PyDict(<<>>))
        called == Call(script, fn_name, parsed.value)
    IN IF fn_name \notin tool_mapping(script)
       THEN Handled(ToolContent(script, NotFoundText(script, fn_name)), FALSE, PyNone)
       ELSE IF parsed.raised = "JSONDecodeError"
       THEN Handled(ToolContent(script, MalformedText(script)), FALSE, PyNone)
       ELSE IF Raised(parsed)
       THEN Escaped(parsed.raised)
       ELSE IF Raised(called)
       THEN [raised |-> called.raised, content |-> PyNone,
             entered |-> called.entered, kwargs |-> parsed.value]
       ELSE Handled(ToolContent(script, called.value), TRUE, parsed.value)

\* HardenedToolCall that decodes the arguments before it resolves the name:
\* malformed arguments for an unregistered tool give the decode warning.
HardenedToolCall_DecodesFirst(script, tool_call) ==
    LET fn_name == tool_call.function.name
        raw_args == Or(tool_call.function.arguments, Str("{}"))
        parsed == IF Truthy(strip(raw_args)) THEN json_loads(raw_args) ELSE Return(PyDict(<<>>))
        called == Call(script, fn_name, parsed.value)
    IN IF parsed.raised = "JSONDecodeError"
       THEN Handled(ToolContent(script, MalformedText(script)), FALSE, PyNone)
       ELSE IF fn_name \notin tool_mapping(script)
       THEN Handled(ToolContent(script, NotFoundText(script, fn_name)), FALSE, PyNone)
       ELSE IF Raised(parsed)
       THEN Escaped(parsed.raised)
       ELSE IF Raised(called)
       THEN Handled(ToolContent(script, ExecutionErrorText(script, fn_name, called.value)),
                    called.entered, parsed.value)
       ELSE Handled(ToolContent(script, called.value), TRUE, parsed.value)

\* HardenedToolCall that hands every text to json.loads, a blank one too:
\* whitespace-only arguments give the decode warning.
HardenedToolCall_DecodesBlank(script, tool_call) ==
    LET fn_name == tool_call.function.name
        raw_args == Or(tool_call.function.arguments, Str("{}"))
        parsed == json_loads(raw_args)
        called == Call(script, fn_name, parsed.value)
    IN IF fn_name \notin tool_mapping(script)
       THEN Handled(ToolContent(script, NotFoundText(script, fn_name)), FALSE, PyNone)
       ELSE IF parsed.raised = "JSONDecodeError"
       THEN Handled(ToolContent(script, MalformedText(script)), FALSE, PyNone)
       ELSE IF Raised(parsed)
       THEN Escaped(parsed.raised)
       ELSE IF Raised(called)
       THEN Handled(ToolContent(script, ExecutionErrorText(script, fn_name, called.value)),
                    called.entered, parsed.value)
       ELSE Handled(ToolContent(script, called.value), TRUE, parsed.value)

\* HardenedToolCall without the `else` of the decode try: after a decode
\* error the tool is called with the empty arguments the warning speaks of,
\* and its result replaces the warning.
HardenedToolCall_ProceedsWithEmptyArgs(script, tool_call) ==
    LET fn_name == tool_call.function.name
        raw_args == Or(tool_call.function.arguments, Str("{}"))
        parsed == IF Truthy(strip(raw_args)) THEN json_loads(raw_args) ELSE Return(PyDict(<<>>))
        parsed_args == IF parsed.raised = "JSONDecodeError" THEN PyDict(<<>>) ELSE parsed.value
        called == Call(script, fn_name, parsed_args)
    IN IF fn_name \notin tool_mapping(script)
       THEN Handled(ToolContent(script, NotFoundText(script, fn_name)), FALSE, PyNone)
       ELSE IF Raised(parsed) /\ parsed.raised # "JSONDecodeError"
       THEN Escaped(parsed.raised)
       ELSE IF Raised(called)
       THEN Handled(ToolContent(script, ExecutionErrorText(script, fn_name, called.value)),
                    called.entered, parsed_args)
       ELSE Handled(ToolContent(script, called.value), TRUE, parsed_args)

\* The body of the for loop of the hardened scripts, up to tool_content.
HardenedToolCall(script, tool_call) ==
    LET fn_name == tool_call.function.name
        raw_args == Or(tool_call.function.arguments, Str("{}"))
        parsed == IF Truthy(strip(raw_args)) THEN json_loads(raw_args) ELSE Return(PyDict(<<>>))
        called == Call(script, fn_name, parsed.value)
    IN IF fn_name \notin tool_mapping(script)
       THEN Handled(ToolContent(script, NotFoundText(script, fn_name)), FALSE, PyNone)
       ELSE IF parsed.raised = "JSONDecodeError"
       THEN Handled(ToolContent(script, MalformedText(script)), FALSE, PyNone)
       ELSE IF Raised(parsed)
       THEN Escaped(parsed.raised)
       ELSE IF Raised(called)
       THEN Handled(ToolContent(script, ExecutionErrorText(script, fn_name, called.value)),
                    called.entered, parsed.value)
       ELSE Handled(ToolContent(script, called.value), TRUE, parsed.value)

\* The body of the for loop of the while-loop scripts, up to tool_result_str.
LoopToolCall(script, tool_call) ==
    LET fn_name == tool_call.function.name
        raw_args == Or(tool_call.function.arguments, Str("{}"))
        parsed == json_loads(raw_args)
        called == Call(script, fn_name, parsed.value)
        dumped == json_dumps(called.value, TRUE)
    IN IF Raised(parsed)
       THEN Escaped(parsed.raised)
       ELSE IF fn_name \notin tool_mapping(script)
       THEN Escaped("TypeError")
       ELSE IF Raised(called)
       THEN [raised |-> called.raised, content |-> PyNone,
             entered |-> called.entered, kwargs |-> parsed.value]
       ELSE IF Raised(dumped)
       THEN [raised |-> dumped.raised, content |-> PyNone, entered |-> TRUE, kwargs |-> parsed.value]
       ELSE Handled(dumped.value, TRUE, parsed.value)

\* The body of the submit loop of the parallel scripts: the arguments are
\* decoded, and a call to a function of available_functions is submitted.
ParallelSubmit(script, tool_call) ==
    LET function_name == tool_call.function.name
        arguments == json_loads(tool_call.function.arguments)
    IN IF Raised(arguments)
       THEN [raised |-> arguments.raised, submit |-> FALSE, kwargs |-> PyNone]
       ELSE IF function_name \notin tool_mapping(script)
       THEN [raised |-> "", submit |-> FALSE, kwargs |-> PyNone]
       ELSE IF arguments.value.t # "dict"
       THEN [raised |-> "TypeError", submit |-> FALSE, kwargs |-> PyNone]
       ELSE [raised |-> "", submit |-> TRUE, kwargs |-> arguments.value]

Future(tool_call, kwargs) ==
    [tool_call |-> tool_call, function_name |-> tool_call.function.name, kwargs |-> kwargs,
     state |-> "pending", outcome |-> Return(PyNone)]

\* future.result() of a finished future and json.dumps of it: the content
\* of the tool message, or the exception that escapes.
ParallelResult(future) ==
    LET dumped == json_dumps(future.outcome.value, TRUE)
    IN IF Raised(future.outcome)
       THEN Escaped(future.outcome.raised)
       ELSE IF Raised(dumped)
       THEN Escaped(dumped.raised)
       ELSE Handled(dumped.value, TRUE, future.kwargs)

---------------------------------------------------------------------------
(* The run *)

VARIABLES
    script,      \* the script that runs
    messages,    \* its `messages` list
    pc,          \* where the script is: "request", "inspect", "dispatch",
                 \* "submit", "collect", "shutdown", "done" or "raised"
    response,    \* the assistant message of the latest model response
    i,           \* the position of the running for loop in its list
    futures,     \* the parallel scripts' list of submitted futures
    answer,      \* the content the script printed as the assistant's answer
    raised,      \* the exception that ended (or is unwinding) the run, "" if none
    n_requests,  \* the requests sent to the model endpoint
    issued,      \* the tool-call requests the endpoint has issued in the run
    invoked,     \* the tool bodies that ran: [id, name, kwargs], in order
    completed,   \* the ids of the pool's finished calls, in order of completion
    tool_result, \* the value under serialization when the serialization step of
                 \* the hardened scripts is run on its own (SerializeSpec); the
                 \* runs of Spec leave it None
    sent,        \* the requests sent to the model endpoint, in order: the
                 \* messages and the tool descriptors each carried
    registry     \* the script's name-to-function dict (tool_mapping,
                 \* available_functions): whether the name is bound yet, and
                 \* the names it maps

vars == <<script, messages, pc, response, i, futures, answer, raised, n_requests, issued,
          invoked, completed, tool_result, sent, registry>>

\* The name-to-function dict before and after its assignment runs.
Unbound == [bound |-> FALSE, names |-> {}]
Bound(names) == [bound |-> TRUE, names |-> names]

\* The dict as the script has it when it sends its first request: the
\* hardened and the while-loop scripts assign tool_mapping ahead of the
\* conversation, the parallel scripts assign available_functions after their
\* first request has returned.
RegistryAtFirstRequest(scr) ==
    IF scr \in ParallelScripts THEN Unbound ELSE Bound(tool_mapping(scr))

\* Request that leaves the tool outputs out of the conversation it sends.
Request_WithoutToolOutputs(msgs, scr) ==
    [messages |-> SelectSeq(msgs, LAMBDA m : m.role # "tool"), tools |-> tools(scr)]

\* The arguments of client.chat.completions.create: the conversation as it
\* is at the call, and the script's tool descriptors.
Request(msgs, scr) == [messages |-> msgs, tools |-> tools(scr)]

NoResponse == [content |-> PyNone, tool_calls |-> PyNone]
Unprinted == [t |-> "unprinted", v |-> <<>>]

Init ==
    /\ script \in Scripts
    /\ messages = InitialMessages(script)
    /\ pc = "request"
    /\ response = NoResponse
    /\ i = 0
    /\ futures = <<>>
    /\ answer = Unprinted
    /\ raised = ""
    /\ n_requests = 0
    /\ issued = 0
    /\ invoked = <<>>
    /\ completed = <<>>
    /\ tool_result = PyNone
    /\ sent = <<>>
    /\ registry = RegistryAtFirstRequest(script)

tool_calls == response.tool_calls.v

\* ParallelToolMessage with the id read from `tool_call` as the submit loop
\* left it (its last request) instead of from the future's own tuple.
ParallelToolMessage_StaleToolCall(future, content) ==
    ToolMessage(tool_calls[Len(tool_calls)].id, Absent, content)

\* The tool message the parallel scripts append (it has no "name" key).
ParallelToolMessage(future, content) ==
    ToolMessage(future.tool_call.id, Absent, content)

\* The failures of client.chat.completions.create
EndpointErrors == {"APIConnectionError", "RateLimitError"}

\* ModelRequest that sends the request again when the endpoint fails.
ModelRequest_Retries ==
    /\ \/ pc = "request"
       \/ script \in LoopScripts /\ pc = "dispatch" /\ i > Len(tool_calls)
    /\ n_requests < MaxCalls + 1
    /\ n_requests' = n_requests + 1
    /\ sent' = Append(sent, Request(messages, script))
    /\ \/ \E r \in Responses(script, issued) :
            /\ response' = r
            /\ issued' = issued + Len(r.tool_calls.v)
            /\ pc' = "inspect"
            /\ raised' = ""
       \/ \E e \in EndpointErrors :
            /\ raised' = e
            /\ pc' = pc
            /\ UNCHANGED <<response, issued>>
    /\ UNCHANGED <<script, registry, tool_result, messages, i, futures, answer, invoked, completed>>

\* ModelRequest with an iteration cap on the while loop: after its second
\* request the loop stops instead of asking the model again.
ModelRequest_Capped ==
    /\ \/ pc = "request"
       \/ script \in LoopScripts /\ pc = "dispatch" /\ i > Len(tool_calls)
    /\ IF script \in LoopScripts /\ n_requests >= 2
       THEN /\ pc' = "done"
            /\ UNCHANGED <<n_requests, sent, response, issued, raised>>
       ELSE /\ n_requests' = n_requests + 1
            /\ sent' = Append(sent, Request(messages, script))
            /\ \/ \E r \in Responses(script, issued) :
                    /\ response' = r
                    /\ issued' = issued + Len(r.tool_calls.v)
                    /\ pc' = "inspect"
                    /\ raised' = raised
               \/ \E e \in EndpointErrors :
                    /\ raised' = e
                    /\ pc' = "raised"
                    /\ UNCHANGED <<response, issued>>
    /\ UNCHANGED <<script, registry, tool_result, messages, i, futures, answer, invoked, completed>>

\* client.chat.completions.create(...) at the start of a run and at the top
\* of each pass of the while loop: the response arrives, or the call raises.
ModelRequest ==
    /\ \/ pc = "request"
       \/ script \in LoopScripts /\ pc = "dispatch" /\ i > Len(tool_calls)
    /\ n_requests' = n_requests + 1
    /\ sent' = Append(sent, Request(messages, script))
    /\ \/ \E r \in Responses(script, issued) :
            /\ response' = r
            /\ issued' = issued + Len(r.tool_calls.v)
            /\ pc' = "inspect"
            /\ raised' = raised
       \/ \E e \in EndpointErrors :
            /\ raised' = e
            /\ pc' = "raised"
            /\ UNCHANGED <<response, issued>>
    /\ UNCHANGED <<script, registry, tool_result, messages, i, futures, answer, invoked, completed>>

\* The assistant message the script appends for a response with tool calls.
AppendedAssistant(scr, resp) ==
    IF scr \in ParallelScripts
    THEN AssistantMessage(resp.content, resp.tool_calls.v)
    ELSE AssistantMessage(Or(resp.content, PyStr(<<>>)), resp.tool_calls.v)

\* InspectResponse without the append of the assistant message.
InspectResponse_SkipsAssistant ==
    /\ pc = "inspect"
    /\ registry' = IF script \in ParallelScripts THEN Bound(tool_mapping(script)) ELSE registry
    /\ IF ~Truthy(response.tool_calls)
       THEN /\ answer' = response.content
            /\ pc' = "done"
            /\ UNCHANGED <<messages, i>>
       ELSE /\ messages' = messages
            /\ pc' = IF script \in ParallelScripts THEN "submit" ELSE "dispatch"
            /\ i' = 1
            /\ UNCHANGED answer
    /\ UNCHANGED <<script, tool_result, sent, response, futures, raised, n_requests, issued, invoked, completed>>

\* InspectResponse that also appends the assistant message of a response
\* without tool calls before it stops.
InspectResponse_AppendsAnswer ==
    /\ pc = "inspect"
    /\ registry' = IF script \in ParallelScripts THEN Bound(tool_mapping(script)) ELSE registry
    /\ IF ~Truthy(response.tool_calls)
       THEN /\ answer' = response.content
            /\ pc' = "done"
            /\ messages' = Append(messages, AssistantMessage(response.content, <<>>))
            /\ UNCHANGED i
       ELSE /\ messages' = Append(messages, AppendedAssistant(script, response))
            /\ pc' = IF script \in ParallelScripts THEN "submit" ELSE "dispatch"
            /\ i' = 1
            /\ UNCHANGED answer
    /\ UNCHANGED <<script, tool_result, sent, response, futures, raised, n_requests, issued, invoked, completed>>

\* `if not assistant_msg.tool_calls`: print the answer and stop, or append
\* the assistant message and enter the dispatch.  In the parallel scripts
\* the assignment of available_functions stands between the first request
\* and this test.
InspectResponse ==
    /\ pc = "inspect"
    /\ registry' = IF script \in ParallelScripts THEN Bound(tool_mapping(script)) ELSE registry
    /\ IF ~Truthy(response.tool_calls)
       THEN /\ answer' = response.content
            /\ pc' = "done"
            /\ UNCHANGED <<messages, i>>
       ELSE /\ messages' = Append(messages, AppendedAssistant(script, response))
            /\ pc' = IF script \in ParallelScripts THEN "submit" ELSE "dispatch"
            /\ i' = 1
            /\ UNCHANGED answer
    /\ UNCHANGED <<script, tool_result, sent, response, futures, raised, n_requests, issued, invoked, completed>>

Invocation(tool_call, kwargs) ==
    [id |-> tool_call.id, name |-> tool_call.function.name, kwargs |-> kwargs]

\* DispatchToolCall that keeps only the latest tool output in the
\* conversation: a tool message overwrites the tool message before it.
DispatchToolCall_OverwritesToolMessage ==
    /\ pc = "dispatch"
    /\ i <= Len(tool_calls)
    /\ LET tool_call == tool_calls[i]
           r == IF script \in LoopScripts
                THEN LoopToolCall(script, tool_call)
                ELSE HardenedToolCall(script, tool_call)
           message == ToolMessage(tool_call.id, tool_call.function.name, r.content)
       IN /\ invoked' = IF r.entered THEN Append(invoked, Invocation(tool_call, r.kwargs)) ELSE invoked
          /\ IF r.raised # ""
             THEN /\ raised' = r.raised
                  /\ pc' = "raised"
                  /\ UNCHANGED <<messages, i>>
             ELSE /\ messages' = IF messages[Len(messages)].role = "tool"
                                 THEN [messages EXCEPT ![Len(messages)] = message]
                                 ELSE Append(messages, message)
                  /\ i' = i + 1
                  /\ UNCHANGED <<pc, raised>>
    /\ UNCHANGED <<script, registry, tool_result, sent, response, futures, answer, n_requests, issued, completed>>

\* DispatchToolCall that walks the requests of the turn from the last to
\* the first.
DispatchToolCall_LastFirst ==
    /\ pc = "dispatch"
    /\ i <= Len(tool_calls)
    /\ LET tool_call == tool_calls[Len(tool_calls) + 1 - i]
           r == IF script \in LoopScripts
                THEN LoopToolCall(script, tool_call)
                ELSE HardenedToolCall(script, tool_call)
       IN /\ invoked' = IF r.entered THEN Append(invoked, Invocation(tool_call, r.kwargs)) ELSE invoked
          /\ IF r.raised # ""
             THEN /\ raised' = r.raised
                  /\ pc' = "raised"
                  /\ UNCHANGED <<messages, i>>
             ELSE /\ messages' = Append(messages,
                                   ToolMessage(tool_call.id, tool_call.function.name, r.content))
                  /\ i' = i + 1
                  /\ UNCHANGED <<pc, raised>>
    /\ UNCHANGED <<script, registry, tool_result, sent, response, futures, answer, n_requests, issued, completed>>

\* DispatchToolCall that reports only the calls whose tool ran: a call that
\* ended in the not-found text, the decode warning or a binding error gets
\* no tool message.
DispatchToolCall_SkipsFailures ==
    /\ pc = "dispatch"
    /\ i <= Len(tool_calls)
    /\ LET tool_call == tool_calls[i]
           r == IF script \in LoopScripts
                THEN LoopToolCall(script, tool_call)
                ELSE HardenedToolCall(script, tool_call)
       IN /\ invoked' = IF r.entered THEN Append(invoked, Invocation(tool_call, r.kwargs)) ELSE invoked
          /\ IF r.raised # ""
             THEN /\ raised' = r.raised
                  /\ pc' = "raised"
                  /\ UNCHANGED <<messages, i>>
             ELSE /\ messages' = IF r.entered
                                 THEN Append(messages,
                                        ToolMessage(tool_call.id, tool_call.function.name, r.content))
                                 ELSE messages
                  /\ i' = i + 1
                  /\ UNCHANGED <<pc, raised>>
    /\ UNCHANGED <<script, registry, tool_result, sent, response, futures, answer, n_requests, issued, completed>>

\* DispatchToolCall whose decode-error path assigns no tool_result: the
\* tool message carries the value the variable holds from the previous pass
\* of the loop, and the first pass raises NameError.
DispatchToolCall_StaleResult ==
    /\ pc = "dispatch"
    /\ i <= Len(tool_calls)
    /\ LET tool_call == tool_calls[i]
           handled == IF script \in LoopScripts
                      THEN LoopToolCall(script, tool_call)
                      ELSE HardenedToolCall(script, tool_call)
           unassigned == /\ script \in HardenedScripts
                         /\ tool_call.function.name \in tool_mapping(script)
                         /\ handled.content = ToolContent(script, MalformedText(script))
           r == IF ~unassigned THEN handled
                ELSE IF i = 1 THEN Escaped("NameError")
                ELSE Handled(messages[Len(messages)].content, FALSE, PyNone)
       IN /\ invoked' = IF r.entered THEN Append(invoked, Invocation(tool_call, r.kwargs)) ELSE invoked
          /\ IF r.raised # ""
             THEN /\ raised' = r.raised
                  /\ pc' = "raised"
                  /\ UNCHANGED <<messages, i>>
             ELSE /\ messages' = Append(messages,
                                   ToolMessage(tool_call.id, tool_call.function.name, r.content))
                  /\ i' = i + 1
                  /\ UNCHANGED <<pc, raised>>
    /\ UNCHANGED <<script, registry, tool_result, sent, response, futures, answer, n_requests, issued, completed>>

\* DispatchToolCall that gives up the turn at the first call whose tool did
\* not run: it reports that call and leaves the loop.
DispatchToolCall_StopsAtFailure ==
    /\ pc = "dispatch"
    /\ i <= Len(tool_calls)
    /\ LET tool_call == tool_calls[i]
           r == IF script \in LoopScripts
                THEN LoopToolCall(script, tool_call)
                ELSE HardenedToolCall(script, tool_call)
       IN /\ invoked' = IF r.entered THEN Append(invoked, Invocation(tool_call, r.kwargs)) ELSE invoked
          /\ IF r.raised # ""
             THEN /\ raised' = r.raised
                  /\ pc' = "raised"
                  /\ UNCHANGED <<messages, i>>
             ELSE /\ messages' = Append(messages,
                                   ToolMessage(tool_call.id, tool_call.function.name, r.content))
                  /\ i' = IF r.entered THEN i + 1 ELSE Len(tool_calls) + 1
                  /\ UNCHANGED <<pc, raised>>
    /\ UNCHANGED <<script, registry, tool_result, sent, response, futures, answer, n_requests, issued, completed>>

\* One pass of `for tool_call in assistant_msg.tool_calls` in the hardened
\* and the while-loop scripts.
DispatchToolCall ==
    /\ pc = "dispatch"
    /\ i <= Len(tool_calls)
    /\ LET tool_call == tool_calls[i]
           r == IF script \in LoopScripts
                THEN LoopToolCall(script, tool_call)
                ELSE HardenedToolCall(script, tool_call)
       IN /\ invoked' = IF r.entered THEN Append(invoked, Invocation(tool_call, r.kwargs)) ELSE invoked
          /\ IF r.raised # ""
             THEN /\ raised' = r.raised
                  /\ pc' = "raised"
                  /\ UNCHANGED <<messages, i>>
             ELSE /\ messages' = Append(messages,
                                   ToolMessage(tool_call.id, tool_call.function.name, r.content))
                  /\ i' = i + 1
                  /\ UNCHANGED <<pc, raised>>
    /\ UNCHANGED <<script, registry, tool_result, sent, response, futures, answer, n_requests, issued, completed>>

\* FollowUp that hands its response back to the inspection, as a loop would.
FollowUp_Redispatches ==
    /\ \/ script \in HardenedScripts /\ pc = "dispatch" /\ i > Len(tool_calls)
       \/ script \in ParallelScripts /\ pc = "collect" /\ i > Len(futures)
    /\ n_requests' = n_requests + 1
    /\ sent' = Append(sent, Request(messages, script))
    /\ \/ \E r \in Responses(script, issued) :
            /\ response' = r
            /\ issued' = issued + Len(r.tool_calls.v)
            /\ answer' = answer
            /\ pc' = "inspect"
            /\ raised' = raised
       \/ \E e \in EndpointErrors :
            /\ raised' = e
            /\ pc' = "raised"
            /\ UNCHANGED <<response, issued, answer>>
    /\ UNCHANGED <<script, registry, tool_result, messages, i, futures, invoked, completed>>

\* The follow-up request, sent by the parallel scripts without the result
\* loop having run to its end.
FollowUp_BeforeResults ==
    /\ \/ script \in HardenedScripts /\ pc = "dispatch" /\ i > Len(tool_calls)
       \/ script \in ParallelScripts /\ pc = "collect"
    /\ n_requests' = n_requests + 1
    /\ sent' = Append(sent, Request(messages, script))
    /\ \/ \E r \in Responses(script, issued) :
            /\ response' = r
            /\ issued' = issued + Len(r.tool_calls.v)
            /\ answer' = r.content
            /\ pc' = "done"
            /\ raised' = raised
       \/ \E e \in EndpointErrors :
            /\ raised' = e
            /\ pc' = "raised"
            /\ UNCHANGED <<response, issued, answer>>
    /\ UNCHANGED <<script, registry, tool_result, messages, i, futures, invoked, completed>>

\* The follow-up request of the single-round-trip scripts and the print of
\* its content.
FollowUp ==
    /\ \/ script \in HardenedScripts /\ pc = "dispatch" /\ i > Len(tool_calls)
       \/ script \in ParallelScripts /\ pc = "collect" /\ i > Len(futures)
    /\ n_requests' = n_requests + 1
    /\ sent' = Append(sent, Request(messages, script))
    /\ \/ \E r \in Responses(script, issued) :
            /\ response' = r
            /\ issued' = issued + Len(r.tool_calls.v)
            /\ answer' = r.content
            /\ pc' = "done"
            /\ raised' = raised
       \/ \E e \in EndpointErrors :
            /\ raised' = e
            /\ pc' = "raised"
            /\ UNCHANGED <<response, issued, answer>>
    /\ UNCHANGED <<script, registry, tool_result, messages, i, futures, invoked, completed>>

\* One pass of the submit loop inside `with ThreadPoolExecutor()`.
SubmitToolCall ==
    /\ pc = "submit"
    /\ i <= Len(tool_calls)
    /\ LET tool_call == tool_calls[i]
           r == ParallelSubmit(script, tool_call)
       IN IF r.raised # ""
          THEN /\ raised' = r.raised
               /\ pc' = "shutdown"
               /\ UNCHANGED <<futures, i>>
          ELSE /\ futures' = IF r.submit THEN Append(futures, Future(tool_call, r.kwargs)) ELSE futures
               /\ pc' = IF i = Len(tool_calls) THEN "collect" ELSE "submit"
               /\ i' = IF i = Len(tool_calls) THEN 1 ELSE i + 1
               /\ UNCHANGED raised
    /\ UNCHANGED <<script, registry, tool_result, sent, messages, response, answer, n_requests, issued, invoked, completed>>

\* A pool worker runs the k-th submitted call to its end.
RunTool(k) ==
    /\ k \in 1..Len(futures)
    /\ futures[k].state = "pending"
    /\ LET f == futures[k]
           outcome == Call(script, f.function_name, f.kwargs)
       IN /\ futures' = [futures EXCEPT ![k].state = "done", ![k].outcome = outcome]
          /\ invoked' = IF outcome.entered
                        THEN Append(invoked, Invocation(f.tool_call, f.kwargs))
                        ELSE invoked
          /\ completed' = Append(completed, f.tool_call.id)
    /\ UNCHANGED <<script, registry, tool_result, sent, messages, pc, response, i, answer, raised, n_requests, issued>>

\* One pass of a result loop that takes the futures as the pool finishes
\* them (as concurrent.futures.as_completed would) instead of in the order
\* of the `futures` list.
CollectResult_AsCompleted ==
    /\ pc = "collect"
    /\ i <= Len(futures)
    /\ i <= Len(completed)
    /\ LET f == CHOOSE k \in 1..Len(futures) : futures[k].tool_call.id = completed[i]
           r == ParallelResult(futures[f])
       IN IF r.raised # ""
          THEN /\ raised' = r.raised
               /\ pc' = "shutdown"
               /\ UNCHANGED <<messages, i>>
          ELSE /\ messages' = Append(messages, ParallelToolMessage(futures[f], r.content))
               /\ i' = i + 1
               /\ UNCHANGED <<pc, raised>>
    /\ UNCHANGED <<script, registry, tool_result, sent, response, futures, answer, n_requests, issued, invoked, completed>>

\* One pass of the result loop: future.result() waits for the future.
CollectResult ==
    /\ pc = "collect"
    /\ i <= Len(futures)
    /\ futures[i].state = "done"
    /\ LET r == ParallelResult(futures[i])
       IN IF r.raised # ""
          THEN /\ raised' = r.raised
               /\ pc' = "shutdown"
               /\ UNCHANGED <<messages, i>>
          ELSE /\ messages' = Append(messages, ParallelToolMessage(futures[i], r.content))
               /\ i' = i + 1
               /\ UNCHANGED <<pc, raised>>
    /\ UNCHANGED <<script, registry, tool_result, sent, response, futures, answer, n_requests, issued, invoked, completed>>

\* An exception leaves the with block: the executor's __exit__ waits for
\* every submitted call, then the exception ends the run.
ExecutorExit ==
    /\ pc = "shutdown"
    /\ \A k \in 1..Len(futures) : futures[k].state = "done"
    /\ pc' = "raised"
    /\ UNCHANGED <<script, registry, tool_result, sent, messages, response, i, futures, answer, raised, n_requests, issued, invoked,
                   completed>>

Next ==
    \/ ModelRequest
    \/ InspectResponse
    \/ DispatchToolCall
    \/ FollowUp
    \/ SubmitToolCall
    \/ \E k \in 1..MaxCalls : RunTool(k)
    \/ CollectResult
    \/ ExecutorExit

Spec == Init /\ [][Next]_vars

---------------------------------------------------------------------------
(* The serialization step of the hardened scripts on its own: the value a  *)
(* registered tool may return is any Python value, where the tools of the  *)
(* scripts only return values json.dumps accepts.                          *)

\* Values a tool may return, in a list: JSON values, values json.dumps refuses, and
\* containers that hold such a value.
ToolResults ==
    << PyNone, Str("sunny"), PyInt("75"), PyFloat("19.99"),
       Str("¡Gran día para estar al aire libre!"),
       PyList(<<Str("sunny"), PyInt("75")>>),
       PyDict(<< <<"weather", Str("sunny")>>, <<"temperature_f", PyInt("75")>> >>),
       Opaque("set", "{75}", "{75}"),
       Opaque("bytes", "b'sunny'", "b'sunny'"),
       Opaque("datetime", "2024-05-01 12:00:00", "datetime.datetime(2024, 5, 1, 12, 0)"),
       Opaque("Decimal", "19.99", "Decimal('19.99')"),
       PyList(<<Str("sunny"), Opaque("set", "{75}", "{75}")>>),
       PyDict(<< <<"weather", Str("sunny")>>,
                 <<"at", Opaque("datetime", "2024-05-01 12:00:00",
                                "datetime.datetime(2024, 5, 1, 12, 0)")>> >>) >>

\* The one tool-call request of the turn under serialization.
SerializedCall(scr) ==
    ToolCall(CallId(1), CHOOSE fn_name \in tool_mapping(scr) : TRUE, Str("{}"))

InitSerialize ==
    /\ script \in HardenedScripts
    /\ \E k \in 1..Len(ToolResults) : tool_result = ToolResults[k]
    /\ messages = Append(InitialMessages(script),
                         AssistantMessage(PyStr(<<>>), <<SerializedCall(script)>>))
    /\ pc = "serialize"
    /\ response = [content |-> PyNone, tool_calls |-> PyList(<<SerializedCall(script)>>)]
    /\ i = 1
    /\ futures = <<>>
    /\ answer = Unprinted
    /\ raised = ""
    /\ n_requests = 1
    /\ issued = 1
    /\ invoked = <<Invocation(SerializedCall(script), PyDict(<<>>))>>
    /\ completed = <<>>
    /\ sent = <<Request(InitialMessages(script), script)>>
    /\ registry = RegistryAtFirstRequest(script)

\* tool_content is computed from tool_result and the tool message appended.
SerializeToolResult ==
    /\ pc = "serialize"
    /\ messages' = Append(messages,
                          ToolMessage(tool_calls[i].id, tool_calls[i].function.name,
                                      ToolContent(script, tool_result)))
    /\ i' = i + 1
    /\ pc' = "dispatch"
    /\ UNCHANGED <<script, registry, tool_result, sent, response, futures, answer, raised, n_requests, issued,
                   invoked, completed>>

NextSerialize == SerializeToolResult \/ FollowUp

SerializeSpec == InitSerialize /\ [][NextSerialize]_vars

---------------------------------------------------------------------------
(* The runs whose first response asks for lookup_weather with well-formed  *)
(* arguments: every combination of city_name and zip_code given, empty,    *)
(* null or left out, alone or followed by a second request of the turn.    *)

\* Well-formed arguments of lookup_weather, as the endpoint writes them.
WeatherArguments ==
    {Str("{\"city_name\": \"Berkeley\"}"),
     Str("{\"city_name\": \"Berkeley\", \"zip_code\": \"94704\"}"),
     Str("{\"city_name\": \"Sídney\", \"zip_code\": \"2000\"}"),
     Str("{\"city_name\": \" \"}"),
     Str("{\"zip_code\": \"94704\"}"),
     Str("{\"city_name\": \"\", \"zip_code\": \"94704\"}"),
     Str("{\"city_name\": null, \"zip_code\": \"94704\"}"),
     Str("{}"),
     Str("{\"city_name\": \"\", \"zip_code\": \"\"}"),
     Str("{\"city_name\": null, \"zip_code\": null}")}

\* The state in which the first response has arrived.
InitWeather ==
    /\ script \in {scr \in Scripts : "lookup_weather" \in tool_mapping(scr)}
    /\ \E arguments \in WeatherArguments :
          \E more \in {<<>>} \cup {<<c>> : c \in CallMenu(script)} :
             response = [content |-> PyNone,
                         tool_calls |-> PyList(
                            <<ToolCall(CallId(1), "lookup_weather", arguments)>>
                            \o [k \in 1..Len(more) |-> ToolCall(CallId(2), more[k][1], more[k][2])])]
    /\ messages = InitialMessages(script)
    /\ pc = "inspect"
    /\ i = 0
    /\ futures = <<>>
    /\ answer = Unprinted
    /\ raised = ""
    /\ n_requests = 1
    /\ issued = Len(response.tool_calls.v)
    /\ invoked = <<>>
    /\ completed = <<>>
    /\ tool_result = PyNone
    /\ sent = <<Request(InitialMessages(script), script)>>
    /\ registry = RegistryAtFirstRequest(script)

WeatherSpec == InitWeather /\ [][Next]_vars

---------------------------------------------------------------------------
(* Vocabulary of the properties *)

\* The position of the last initial message.
Base == Len(InitialMessages(script))

\* The tool-call requests of the first assistant message the run appended:
\* in the single-round-trip scripts, the requests of the one dispatch pass.
Turn == IF Len(messages) > Base THEN messages[Base + 1].tool_calls ELSE <<>>

\* The positions of the tool messages of the conversation for a request id.
ToolMessagesFor(id) ==
    {m \in 1..Len(messages) :
        messages[m].role = "tool" /\ messages[m].tool_call_id = id}

Registered(tool_call) == tool_call.function.name \in tool_mapping(script)

\* The raw arguments are a text that is not blank and is no JSON document.
MalformedArguments(tool_call) ==
    /\ tool_call.function.arguments.t = "str"
    /\ Len(tool_call.function.arguments.v) = 1
    /\ tool_call.function.arguments.v[1] \in MalformedTexts

\* The run ended by an exception that is no failure of the model endpoint.
AbortedByTool == pc \in {"shutdown", "raised"} /\ raised \notin EndpointErrors

\* The JSON string literals of the scripts' decode warnings.
WarningContents ==
    {PyStr(<<"\"", w, "\"">>) :
        w \in {"Warning: Malformed JSON arguments received; proceeding with empty args",
               "Warning: JSON arguments malformados; sigo con args vac\\u00edos",
               "Advertencia: JSON de argumentos malformado; se continúa con argumentos vacíos"}}

\* C1: in the hardened single-round-trip scripts a registered tool's call
\* with malformed JSON arguments never aborts the run: once the dispatch has
\* passed it, exactly one tool message carries its id, that message is the
\* next in line and holds the decode warning (no tool result) and the tool
\* did not run; no exception escapes the handling of such a call, and a run
\* that dispatched reaches its end only past every call and the follow-up.
C1_MalformedArgumentsYieldWarning ==
    script \in HardenedScripts =>
        LET base == Base
            turn == Turn
        IN
            /\ ~AbortedByTool
            /\ (/\ pc = "dispatch"
                /\ i <= Len(turn)
                /\ Registered(turn[i])
                /\ MalformedArguments(turn[i])) => HardenedToolCall(script, turn[i]).raised = ""
            /\ \A k \in 1..Len(turn) :
                 (k < i /\ Registered(turn[k]) /\ MalformedArguments(turn[k])) =>
                    /\ Cardinality(ToolMessagesFor(turn[k].id)) = 1
                    /\ messages[base + 1 + k].role = "tool"
                    /\ messages[base + 1 + k].tool_call_id = turn[k].id
                    /\ messages[base + 1 + k].content \in WarningContents
                    /\ \A n \in 1..Len(invoked) : invoked[n].id # turn[k].id
            /\ (pc = "done" /\ turn # <<>>) => (i = Len(turn) + 1 /\ n_requests = 2)

\* A hardened run that ended after its follow-up request, whose first call
\* had malformed arguments for a registered tool and was followed by
\* another call of the same turn.
C1_Witness ==
    /\ script \in HardenedScripts
    /\ pc = "done"
    /\ n_requests = 2
    /\ Len(Turn) >= 2
    /\ Registered(Turn[1])
    /\ MalformedArguments(Turn[1])
    /\ Len(messages) = Base + 1 + Len(Turn)

\* C2: in the hardened single-round-trip scripts a call that names a tool
\* missing from tool_mapping never aborts the run and runs no tool: once the
\* dispatch has passed it, exactly one tool message carries its id, that
\* message is the next in line and holds the error text that names the
\* requested tool; no exception escapes the handling of such a call, and
\* the run reaches its end only past the follow-up request.
C2_UnregisteredToolYieldsNotFound ==
    script \in HardenedScripts =>
        LET base == Base
            turn == Turn
        IN
            /\ ~AbortedByTool
            /\ (pc = "dispatch" /\ i <= Len(turn) /\ ~Registered(turn[i]))
                  => HardenedToolCall(script, turn[i]).raised = ""
            /\ \A k \in 1..Len(turn) :
                 (k < i /\ ~Registered(turn[k])) =>
                    /\ Cardinality(ToolMessagesFor(turn[k].id)) = 1
                    /\ messages[base + 1 + k].role = "tool"
                    /\ messages[base + 1 + k].tool_call_id = turn[k].id
                    /\ \E prefix \in {"ERROR: No implementation registered for tool '",
                                      "ERROR: No hay implementaci\\u00f3n registrada para la tool '",
                                      "ERROR: No hay implementación registrada para la herramienta '"} :
                          messages[base + 1 + k].content
                            = PyStr(<<"\"", prefix, turn[k].function.name, "'", "\"">>)
                    /\ \A n \in 1..Len(invoked) : invoked[n].id # turn[k].id
            /\ (pc = "done" /\ n_requests # 2) => \A k \in 1..Len(turn) : Registered(turn[k])

\* A hardened run that ended after its follow-up request and whose turn
\* asked for an unregistered tool, with malformed arguments, before a
\* registered one.
C2_Witness ==
    /\ script \in HardenedScripts
    /\ pc = "done"
    /\ n_requests = 2
    /\ Len(Turn) >= 2
    /\ ~Registered(Turn[1])
    /\ MalformedArguments(Turn[1])
    /\ Registered(Turn[2])
    /\ Len(messages) = Base + 1 + Len(Turn)

\* The parameters the hardened scripts decode from a call's raw arguments
\* that are not malformed.
DecodedArguments(tool_call) ==
    LET raw_args == Or(tool_call.function.arguments, Str("{}"))
    IN IF Truthy(strip(raw_args)) THEN json_loads(raw_args).value ELSE PyDict(<<>>)

\* The registered tool of the call raises on the call's decoded parameters.
ToolRaises(tool_call) ==
    /\ Registered(tool_call)
    /\ ~MalformedArguments(tool_call)
    /\ Raised(Call(script, tool_call.function.name, DecodedArguments(tool_call)))

\* C3: in the hardened single-round-trip scripts a registered tool that
\* raises on the decoded parameters (a missing required parameter, an
\* undeclared keyword, a rejected value) never aborts the run: once the
\* dispatch has passed the call, exactly one tool message carries its id,
\* that message is the next in line and holds the execution-error text with
\* the tool's name and the exception's message; no exception escapes the
\* handling of such a call, and the run reaches its end only past the
\* follow-up request.
C3_ToolFaultYieldsExecutionError ==
    script \in HardenedScripts =>
        LET base == Base
            turn == Turn
        IN
            /\ ~AbortedByTool
            /\ (pc = "dispatch" /\ i <= Len(turn) /\ ToolRaises(turn[i]))
                  => HardenedToolCall(script, turn[i]).raised = ""
            /\ \A k \in 1..Len(turn) :
                 (k < i /\ ToolRaises(turn[k])) =>
                    LET fn_name == turn[k].function.name
                        e == Call(script, fn_name, DecodedArguments(turn[k])).value
                        ensure_ascii == script # "spanish/function_calling_extended_errors"
                    IN /\ Cardinality(ToolMessagesFor(turn[k].id)) = 1
                       /\ messages[base + 1 + k].role = "tool"
                       /\ messages[base + 1 + k].tool_call_id = turn[k].id
                       /\ \E prefix \in {"Tool execution error in ", "Error ejecutando la tool ",
                                         "Error ejecutando la herramienta "} :
                             messages[base + 1 + k].content
                               = PyStr(<<"\"", prefix, fn_name, ": ">>
                                       \o [c \in 1..Len(e.v) |-> EscapeChunk(e.v[c], ensure_ascii)]
                                       \o <<"\"">>)
            /\ (pc = "done" /\ n_requests # 2) => \A k \in 1..Len(turn) : ~ToolRaises(turn[k])

\* A hardened run that ended after its follow-up request and whose turn
\* called search_database without search_query before another call; the
\* tool message names the tool and the missing argument.
C3_Witness ==
    /\ script = "function_calling_fewshots"
    /\ pc = "done"
    /\ n_requests = 2
    /\ Len(Turn) >= 2
    /\ Turn[1].function.name = "search_database"
    /\ Turn[1].function.arguments = PyNone
    /\ ToolRaises(Turn[1])
    /\ messages[Base + 2].content
         = PyStr(<<"\"", "Tool execution error in ", "search_database", ": ", "search_database",
                   "() missing 1 required positional argument: '", "search_query", "'", "\"">>)
    /\ Len(messages) = Base + 1 + Len(Turn)

\* C4: the while-loop scripts absorb every per-tool failure (an unregistered
\* name, malformed arguments, a tool that raises): only a failure of the
\* model endpoint ends a run with an exception.
C4_LoopAbsorbsToolFailures ==
    script \in LoopScripts => ~AbortedByTool

\* C5: in the parallel scripts no tool failure (malformed arguments, a tool
\* that raises in the pool) ends the run: only a failure of the model
\* endpoint does.
C5_ParallelAbsorbsToolFailures ==
    script \in ParallelScripts => (pc \in {"shutdown", "raised"} => raised \in EndpointErrors)

\* C6: when a parallel script sends its final request, the conversation
\* holds, after the assistant message, exactly one tool message per
\* tool-call request of the turn, each with its request's id.
C6_ParallelOneMessagePerRequest ==
    (script \in ParallelScripts /\ n_requests = 2) =>
        /\ Len(messages) = Base + 1 + Len(Turn)
        /\ \A k \in 1..Len(Turn) : Cardinality(ToolMessagesFor(Turn[k].id)) = 1

\* C7: in the parallel scripts every tool message the run appended carries
\* the id of a request of the turn and, as its content, the JSON text of
\* what that request's tool returns for that request's decoded arguments,
\* whatever the order in which the pool finished the calls.
C7_ParallelResultsPairedById ==
    script \in ParallelScripts =>
        \A m \in (Base + 2)..Len(messages) :
            /\ messages[m].role = "tool"
            /\ \E k \in 1..Len(Turn) :
                  /\ Turn[k].id = messages[m].tool_call_id
                  /\ messages[m].content =
                       json_dumps(Call(script, Turn[k].function.name,
                                       json_loads(Turn[k].function.arguments).value).value,
                                  TRUE).value

\* A parallel run that ended, whose turn asked for lookup_weather and then
\* lookup_movies, the pool finishing lookup_movies first, both tool messages
\* appended.
C7_Witness ==
    /\ script \in ParallelScripts
    /\ pc = "done"
    /\ Len(Turn) = 2
    /\ Turn[1].function.name = "lookup_weather"
    /\ Turn[2].function.name = "lookup_movies"
    /\ completed = <<Turn[2].id, Turn[1].id>>
    /\ Len(messages) = Base + 3
    /\ messages[Base + 2].content # messages[Base + 3].content

\* C8: in every script and every state, each tool message of the
\* conversation follows an assistant message with only tool messages in
\* between, and its tool_call_id is the id of a request of that assistant
\* message.
C8_ToolMessagesAnswerNearestAssistant ==
    \A m \in 1..Len(messages) :
        messages[m].role = "tool" =>
            \E a \in 1..(m - 1) :
                /\ messages[a].role = "assistant"
                /\ \A j \in (a + 1)..(m - 1) : messages[j].role = "tool"
                /\ \E k \in 1..Len(messages[a].tool_calls) :
                      messages[a].tool_calls[k].id = messages[m].tool_call_id

\* A while-loop run in its second dispatch pass: two assistant messages
\* appended, each followed by its tool messages.
C8_Witness ==
    /\ script \in LoopScripts
    /\ Len(messages) >= Base + 4
    /\ messages[Base + 1].role = "assistant"
    /\ messages[Base + 2].role = "tool"
    /\ messages[Len(messages) - 1].role = "assistant"
    /\ messages[Len(messages)].role = "tool"
    /\ messages[Len(messages)].tool_call_id # messages[Base + 2].tool_call_id

SingleRoundTripScripts == HardenedScripts \cup ParallelScripts

\* C9: a single-round-trip script sends at most two requests and makes at
\* most one dispatch pass: the conversation gains at most one assistant
\* message, every tool that ran and every tool message belongs to a request
\* of that message, a run that dispatched ends only after its second
\* request, and after the second request the run is over with the content
\* of that response as its answer, tool-call requests in it or not.
C9_SingleRoundTripDispatchesOnce ==
    script \in SingleRoundTripScripts =>
        LET base == Base
            turn == Turn
        IN
            /\ n_requests <= 2
            /\ \A m \in (base + 2)..Len(messages) : messages[m].role = "tool"
            /\ \A m \in (base + 2)..Len(messages) :
                  \E k \in 1..Len(turn) : messages[m].tool_call_id = turn[k].id
            /\ \A n \in 1..Len(invoked) : \E k \in 1..Len(turn) : invoked[n].id = turn[k].id
            /\ (pc = "done" /\ turn # <<>>) => n_requests = 2
            /\ n_requests = 2 =>
                  /\ pc \in {"done", "raised"}
                  /\ pc = "done" => answer = response.content
                  /\ script \in HardenedScripts => i = Len(turn) + 1
                  /\ \A k \in 1..Len(futures) : futures[k].state = "done"

\* A hardened run that ended after its follow-up request, the follow-up
\* response carrying a tool-call request that was left alone.
C9_Witness ==
    /\ script \in HardenedScripts
    /\ pc = "done"
    /\ n_requests = 2
    /\ Truthy(response.tool_calls)
    /\ answer = response.content
    /\ \A n \in 1..Len(invoked) : invoked[n].id # response.tool_calls.v[1].id
    /\ ToolMessagesFor(response.tool_calls.v[1].id) = {}

\* C10: a while-loop script stops only on a response without tool-call
\* requests: whenever the run is over and no failure of the model endpoint
\* ended it, it is Done and its last response carries no tool-call request.
C10_LoopStopsOnlyOnPlainAnswer ==
    (script \in LoopScripts /\ pc \in {"done", "raised"} /\ raised \notin EndpointErrors) =>
        (pc = "done" /\ ~Truthy(response.tool_calls))

\* C11: the conversation is append-only in every script: each step leaves
\* the messages it found in place, unchanged and in order, as a prefix of
\* the conversation it produces, and the first two entries stay the script's
\* initial system and user messages.
C11_ConversationAppendOnly ==
    [][/\ Len(messages') >= Len(messages)
       /\ SubSeq(messages', 1, Len(messages)) = messages
       /\ messages'[1] = InitialMessages(script)[1]
       /\ messages'[2] = InitialMessages(script)[2]
       /\ messages'[1].role = "system"
       /\ messages'[2].role = "user"]_vars

\* A run that appended an assistant message and two tool messages after the
\* initial messages, which are still in place.
C11_Witness ==
    /\ Len(messages) >= Base + 3
    /\ SubSeq(messages, 1, Base) = InitialMessages(script)
    /\ messages[Base + 1].role = "assistant"
    /\ messages[Base + 2].role = "tool"
    /\ messages[Base + 3].role = "tool"

\* C12: every tool message a script appended, in any variant, carries the
\* id of a tool-call request of an assistant message before it and, under
\* "name", the name of the tool that request asked for.
C12_ToolMessagesEchoIdAndName ==
    \A m \in (Base + 1)..Len(messages) :
        messages[m].role = "tool" =>
            \E a \in (Base + 1)..(m - 1) :
                \E k \in 1..Len(messages[a].tool_calls) :
                    /\ messages[a].tool_calls[k].id = messages[m].tool_call_id
                    /\ messages[a].tool_calls[k].function.name = messages[m].name

\* C13: a failure of the model endpoint, on any request of any script, ends
\* the run with that exception: the step in which a request fails leaves the
\* run raised with the endpoint's error, the conversation as it was and no
\* call of the pool unfinished, and from then on nothing happens: no further
\* request, no tool invocation, no message.
C13_EndpointFailureAbortsRun ==
    [][/\ raised' \in EndpointErrors =>
             /\ pc' = "raised"
             /\ n_requests' = n_requests + 1
             /\ messages' = messages
             /\ invoked' = invoked
             /\ answer' = answer
             /\ \A k \in 1..Len(futures') : futures'[k].state = "done"
       /\ raised \in EndpointErrors =>
             /\ n_requests' = n_requests
             /\ messages' = messages
             /\ invoked' = invoked
             /\ futures' = futures
             /\ pc' = "raised"]_vars

\* A run whose second request failed, after an assistant message and a tool
\* message were appended.
C13_Witness ==
    /\ raised \in EndpointErrors
    /\ pc = "raised"
    /\ n_requests = 2
    /\ Len(messages) >= Base + 2
    /\ messages[Len(messages)].role = "tool"
    /\ answer = Unprinted

\* C14: in the parallel scripts a step that appends a tool message finds
\* every call submitted for the turn finished in the pool, and a step in
\* which a pool worker finishes a call leaves the conversation alone.
C14_ParallelAppendsAfterAllCollected ==
    [][/\ (/\ script \in ParallelScripts
           /\ Len(messages') > Len(messages)
           /\ messages'[Len(messages')].role = "tool") =>
              (\A k \in 1..Len(futures) : futures[k].state = "done")
       /\ (/\ script \in ParallelScripts
           /\ \E k \in 1..Len(futures) : futures[k].state # futures'[k].state) =>
              (messages' = messages)]_vars

\* C15: in the hardened scripts the handling of a call follows the
\* precedence name, arguments, invocation: a call that names an unregistered
\* tool gets the not-found text whether its arguments are malformed or not;
\* a registered tool's call with malformed arguments gets the decode
\* warning; and a tool body ran only for a request whose name is registered
\* and whose arguments decoded, with the decoded arguments.
C15_NameThenDecodeThenInvoke ==
    script \in HardenedScripts =>
        LET base == Base
            turn == Turn
        IN
            /\ \A k \in 1..Len(turn) :
                 k < i =>
                    /\ ~Registered(turn[k]) =>
                          messages[base + 1 + k].content
                            = ToolContent(script, NotFoundText(script, turn[k].function.name))
                    /\ (Registered(turn[k]) /\ MalformedArguments(turn[k])) =>
                          messages[base + 1 + k].content = ToolContent(script, MalformedText(script))
            /\ \A n \in 1..Len(invoked) :
                 \E k \in 1..Len(turn) :
                    /\ invoked[n].id = turn[k].id
                    /\ k < i
                    /\ Registered(turn[k])
                    /\ ~MalformedArguments(turn[k])
                    /\ invoked[n].name = turn[k].function.name
                    /\ invoked[n].kwargs = DecodedArguments(turn[k])

\* A hardened run that dispatched two calls, an unregistered tool with
\* malformed arguments and a registered tool with malformed arguments: the
\* first got the not-found text, the second the warning, and no tool ran.
C15_Witness ==
    /\ script \in HardenedScripts
    /\ pc = "done"
    /\ Len(Turn) = 2
    /\ ~Registered(Turn[1]) /\ MalformedArguments(Turn[1])
    /\ Registered(Turn[2]) /\ MalformedArguments(Turn[2])
    /\ invoked = <<>>
    /\ messages[Base + 2].content = ToolContent(script, NotFoundText(script, Turn[1].function.name))
    /\ messages[Base + 3].content = ToolContent(script, MalformedText(script))

\* The raw arguments are absent (None), the empty text or whitespace only.
BlankArguments(tool_call) ==
    \/ tool_call.function.arguments = PyNone
    \/ /\ tool_call.function.arguments.t = "str"
       /\ \A c \in 1..Len(tool_call.function.arguments.v) :
             tool_call.function.arguments.v[c] \in BlankTexts

\* C16, as stated: in the hardened scripts a registered tool's call with
\* absent, empty or blank arguments runs the tool with no parameters, and the
\* tool's result is the content of its tool message.
C16_BlankArgumentsRunTool ==
    script \in HardenedScripts =>
        LET base == Base
            turn == Turn
        IN \A k \in 1..Len(turn) :
              (k < i /\ Registered(turn[k]) /\ BlankArguments(turn[k])) =>
                 LET called == Call(script, turn[k].function.name, PyDict(<<>>))
                 IN /\ ~Raised(called)
                    /\ messages[base + 1 + k].content = ToolContent(script, called.value)
                    /\ \E n \in 1..Len(invoked) :
                          invoked[n] = Invocation(turn[k], PyDict(<<>>))

\* C16, amended: in the hardened scripts a registered tool's call with
\* absent, empty or blank arguments is never answered with the decode
\* warning: the tool is called with no keyword arguments.  lookup_weather,
\* whose parameters are all optional, runs and its result for the
\* placeholder location is the content of the tool message; search_database,
\* which requires search_query, does not run and the content is the
\* execution-error text that names the missing argument.
C16_BlankArgumentsCallWithNoParameters ==
    script \in HardenedScripts =>
        LET base == Base
            turn == Turn
        IN \A k \in 1..Len(turn) :
              (k < i /\ Registered(turn[k]) /\ BlankArguments(turn[k])) =>
                 /\ messages[base + 1 + k].tool_call_id = turn[k].id
                 /\ messages[base + 1 + k].content \notin WarningContents
                 /\ turn[k].function.name = "lookup_weather" =>
                       /\ messages[base + 1 + k].content
                            = ToolContent(script, lookup_weather(script, PyDict(<<>>)).value)
                       /\ \E n \in 1..Len(invoked) : invoked[n] = Invocation(turn[k], PyDict(<<>>))
                 /\ turn[k].function.name = "search_database" =>
                       /\ \E prefix \in {"Tool execution error in ", "Error ejecutando la tool "} :
                             messages[base + 1 + k].content
                               = PyStr(<<"\"", prefix, "search_database", ": ", "search_database",
                                         "() missing 1 required positional argument: '",
                                         "search_query", "'", "\"">>)
                       /\ \A n \in 1..Len(invoked) : invoked[n].id # turn[k].id

\* A hardened run that ended after a turn of two calls of lookup_weather,
\* one with absent and one with whitespace-only arguments; both ran and
\* both tool messages hold the result for the placeholder location.
C16_Witness ==
    /\ script \in WeatherScripts
    /\ pc = "done"
    /\ Len(Turn) = 2
    /\ Turn[1].function.arguments = PyNone
    /\ Turn[2].function.arguments = Str(" ")
    /\ Registered(Turn[1]) /\ Registered(Turn[2])
    /\ Len(invoked) = 2
    /\ messages[Base + 2].content = messages[Base + 3].content
    /\ messages[Base + 2].content \notin WarningContents

\* C17: in the while-loop scripts a registered tool's call with absent,
\* empty or blank arguments never ends the run: the loop does not raise on
\* it, and once the pass is over the call its tool message is the next in
\* line and holds the tool's result for no parameters.
C17_LoopBlankArgumentsRunTool ==
    (script \in LoopScripts /\ pc \in {"dispatch", "raised"}) =>
        \A k \in 1..Len(tool_calls) :
            (Registered(tool_calls[k]) /\ BlankArguments(tool_calls[k])) =>
                /\ k = i => pc # "raised"
                /\ (k < i /\ pc = "dispatch") =>
                      LET m == Len(messages) - (i - 1) + k
                      IN /\ messages[m].role = "tool"
                         /\ messages[m].tool_call_id = tool_calls[k].id
                         /\ messages[m].content
                              = json_dumps(Call(script, tool_calls[k].function.name,
                                                PyDict(<<>>)).value, TRUE).value

\* The raw arguments are well-formed JSON that is no object.
NonObjectArguments(tool_call) ==
    /\ ~BlankArguments(tool_call)
    /\ ~Raised(json_loads(tool_call.function.arguments))
    /\ json_loads(tool_call.function.arguments).value.t # "dict"

\* C18: in the hardened scripts a registered tool's call whose arguments are
\* well-formed JSON but no object is answered as a decode error: its tool
\* message holds the decode warning, and the tool did not run.
C18_NonObjectArgumentsYieldWarning ==
    script \in HardenedScripts =>
        LET base == Base
            turn == Turn
        IN \A k \in 1..Len(turn) :
              (k < i /\ Registered(turn[k]) /\ NonObjectArguments(turn[k])) =>
                 /\ messages[base + 1 + k].tool_call_id = turn[k].id
                 /\ messages[base + 1 + k].content \in WarningContents
                 /\ \A n \in 1..Len(invoked) : invoked[n].id # turn[k].id

AnsweredInOrder(n) ==
    /\ Len(messages) > n
    /\ messages[Len(messages) - n].role = "assistant"
    /\ messages[Len(messages) - n].tool_calls = tool_calls
    /\ \A k \in 1..n :
          /\ messages[Len(messages) - n + k].role = "tool"
          /\ messages[Len(messages) - n + k].tool_call_id = tool_calls[k].id

\* A step of a sequential script runs at most one tool body, for request i
\* and after the tool messages of requests 1 .. i-1, and appends a tool
\* message only for request i, after those of requests 1 .. i-1.
SequentialStep ==
    /\ futures' = <<>>
    /\ Len(invoked') <= Len(invoked) + 1
    /\ Len(invoked') > Len(invoked) =>
          /\ pc = "dispatch"
          /\ SubSeq(invoked', 1, Len(invoked)) = invoked
          /\ invoked'[Len(invoked')].id = tool_calls[i].id
          /\ AnsweredInOrder(i - 1)
    /\ (Len(messages') > Len(messages) /\ messages'[Len(messages')].role = "tool") =>
          /\ pc = "dispatch"
          /\ AnsweredInOrder(i - 1)
          /\ messages'[Len(messages')].tool_call_id = tool_calls[i].id
          /\ Len(messages') = Len(messages) + 1

\* C20: the hardened and the while-loop scripts handle the requests of a
\* turn one at a time in the order of the turn: there is no pool, a step
\* runs at most one tool body, a tool body runs for request i and a tool
\* message is appended for request i only when the tool messages of
\* requests 1 .. i-1 are in the conversation, in order, and the appended
\* tool message is that of request i.
C20_SequentialInEmissionOrder ==
    [][(script \in HardenedScripts \cup LoopScripts) => SequentialStep]_vars

\* A while-loop run whose turn of two requests ran both tools, the first
\* request's first, and holds their tool messages in the order of the turn.
C20_Witness ==
    /\ script \in LoopScripts
    /\ pc = "dispatch"
    /\ Len(tool_calls) = 2
    /\ i = 3
    /\ Len(invoked) = 2
    /\ invoked[1].id = tool_calls[1].id
    /\ invoked[2].id = tool_calls[2].id
    /\ AnsweredInOrder(2)

\* A step taken on a response without tool-call requests, and a step taken
\* once the run is Done.
PlainAnswerStep ==
    /\ (pc = "inspect" /\ ~Truthy(response.tool_calls)) =>
          /\ pc' = "done"
          /\ answer' = response.content
          /\ messages' = messages
          /\ invoked' = invoked
          /\ futures' = futures
          /\ n_requests' = n_requests
    /\ pc = "done" => UNCHANGED vars

\* C21: in every script, a response without tool-call requests (tool_calls
\* None or empty) takes the run straight to Done with the response's content
\* as the answer: that step runs no tool, sends no request and leaves the
\* conversation as it was (the answering assistant message is not appended),
\* and nothing happens after Done.
C21_PlainAnswerEndsRun ==
    [][PlainAnswerStep]_vars

\* A while-loop run that is Done on the plain answer to its second request:
\* the conversation ends with the tool message of the first pass, and the
\* answer is the content of the last response.
C21_Witness ==
    /\ script \in LoopScripts
    /\ pc = "done"
    /\ n_requests = 2
    /\ ~Truthy(response.tool_calls)
    /\ answer = response.content
    /\ answer = Str("final answer")
    /\ Len(messages) = Base + 2
    /\ messages[Len(messages)].role = "tool"

\* C22: in the hardened single-round-trip scripts the dispatch pass of a
\* turn with N tool-call requests extends the conversation by exactly 1 + N
\* messages: the assistant message with all N requests, then one tool
\* message per request in the order of the requests, whatever the outcome of
\* each call.  While the pass runs only the first request has been sent and
\* the conversation holds the assistant message and the tool messages of
\* the calls already handled; no call ends the pass early; and the
\* follow-up request is sent only with all 1 + N messages in place.
C22_DispatchPassAppendsOnePerRequest ==
    script \in HardenedScripts =>
        LET base == Base
            turn == Turn
        IN
            /\ ~AbortedByTool
            /\ pc = "dispatch" =>
                  /\ n_requests = 1
                  /\ turn = tool_calls
                  /\ i \in 1..(Len(turn) + 1)
                  /\ Len(messages) = base + i
            /\ n_requests = 2 =>
                  /\ Len(messages) = base + 1 + Len(turn)
                  /\ Len(turn) >= 1
            /\ Len(messages) > base =>
                  /\ messages[base + 1].role = "assistant"
                  /\ \A m \in (base + 2)..Len(messages) :
                        /\ messages[m].role = "tool"
                        /\ messages[m].tool_call_id = turn[m - base - 1].id
                        /\ messages[m].name = turn[m - base - 1].function.name
                        /\ ToolMessagesFor(messages[m].tool_call_id) = {m}

\* A hardened run that sent its follow-up request after a turn of two
\* requests, one for an unregistered tool and one that made the registered
\* tool raise: the conversation grew by the assistant message and two tool
\* messages.
C22_Witness ==
    /\ script \in HardenedScripts
    /\ n_requests = 2
    /\ Len(Turn) = 2
    /\ ~Registered(Turn[1])
    /\ ToolRaises(Turn[2])
    /\ Len(messages) = Base + 3
    /\ messages[Base + 2].tool_call_id = Turn[1].id
    /\ messages[Base + 3].tool_call_id = Turn[2].id
    /\ messages[Base + 2].content # messages[Base + 3].content

\* The dispatch passes the run has started: the assistant messages it
\* appended to the conversation.
Passes == Cardinality({m \in (Base + 1)..Len(messages) : messages[m].role = "assistant"})

\* A step of the while loop: a response with tool-call requests starts a
\* pass, a finished pass is followed by a request to the model whatever the
\* number of requests and passes so far, and the loop is left for Done only
\* on a response without tool-call requests.
LoopStep ==
    /\ (pc = "inspect" /\ Truthy(response.tool_calls)) =>
          /\ pc' = "dispatch"
          /\ i' = 1
          /\ Passes' = Passes + 1
    /\ (pc = "dispatch" /\ i > Len(tool_calls)) =>
          /\ n_requests' = n_requests + 1
          /\ pc' \in {"inspect", "raised"}
          /\ pc' = "raised" => raised' \in EndpointErrors
    /\ (pc # "done" /\ pc' = "done") =>
          /\ pc = "inspect"
          /\ ~Truthy(response.tool_calls)
    /\ Passes <= n_requests

\* C23: the while loop has no iteration cap.  Every response with tool-call
\* requests starts a dispatch pass and every finished pass sends the next
\* request, however many passes the run has made, so the number of passes is
\* bounded by the model endpoint alone; and the loop reaches Done only on a
\* response without tool-call requests, so a run whose every response
\* carries a tool-call request is never Done.
C23_LoopHasNoIterationCap ==
    [][(script \in LoopScripts) => LoopStep]_vars

\* A while-loop run that finished as many passes as the endpoint may issue
\* tool-call requests, every response so far carrying one, and is about to
\* send its next request.
C23_Witness ==
    /\ script \in LoopScripts
    /\ Passes = MaxCalls
    /\ n_requests = MaxCalls
    /\ pc = "dispatch"
    /\ i > Len(tool_calls)
    /\ raised = ""

\* The reading of a JSON text, chunk by chunk: [ok, value, rest].
ParseFailed == [ok |-> FALSE, value |-> PyNone, rest |-> <<>>]
Parsed(value, rest) == [ok |-> TRUE, value |-> value, rest |-> rest]

IntLiterals == {"75", "7", "20"}
FloatLiterals == {"19.99"}

\* The chunk a \uXXXX-escaped chunk stands for.
UnescapeChunk(c) ==
    IF \E k \in 1..Len(AsciiEscapes) : AsciiEscapes[k][2] = c
    THEN AsciiEscapes[CHOOSE k \in 1..Len(AsciiEscapes) : AsciiEscapes[k][2] = c][1]
    ELSE c

\* A string literal at the head of toks: the chunks up to the closing quote.
ParseString(toks) ==
    IF \E j \in 2..Len(toks) : toks[j] = "\""
    THEN LET j == CHOOSE h \in 2..Len(toks) :
                     toks[h] = "\"" /\ \A g \in 2..(h - 1) : toks[g] # "\""
         IN Parsed(PyStr([k \in 1..(j - 2) |-> UnescapeChunk(toks[k + 1])]),
                   SubSeq(toks, j + 1, Len(toks)))
    ELSE ParseFailed

RECURSIVE ParseValue(_), ParseElements(_, _), ParseItems(_, _)
ParseValue(toks) ==
    IF toks = <<>> THEN ParseFailed
    ELSE CASE toks[1] = "null" -> Parsed(PyNone, Tail(toks))
           [] toks[1] = "\"" -> ParseString(toks)
           [] toks[1] \in IntLiterals -> Parsed(PyInt(toks[1]), Tail(toks))
           [] toks[1] \in FloatLiterals -> Parsed(PyFloat(toks[1]), Tail(toks))
           [] toks[1] = "[" ->
                IF Len(toks) >= 2 /\ toks[2] = "]"
                THEN Parsed(PyList(<<>>), SubSeq(toks, 3, Len(toks)))
                ELSE ParseElements(Tail(toks), <<>>)
           [] toks[1] = "{" ->
                IF Len(toks) >= 2 /\ toks[2] = "}"
                THEN Parsed(PyDict(<<>>), SubSeq(toks, 3, Len(toks)))
                ELSE ParseItems(Tail(toks), <<>>)
           [] OTHER -> ParseFailed

ParseElements(toks, acc) ==
    LET r == ParseValue(toks)
    IN IF ~r.ok \/ r.rest = <<>> THEN ParseFailed
       ELSE IF r.rest[1] = ", " THEN ParseElements(Tail(r.rest), Append(acc, r.value))
       ELSE IF r.rest[1] = "]" THEN Parsed(PyList(Append(acc, r.value)), Tail(r.rest))
       ELSE ParseFailed

ParseItems(toks, acc) ==
    IF toks = <<>> \/ toks[1] # "\"" THEN ParseFailed
    ELSE LET key == ParseString(toks)
         IN IF ~key.ok \/ Len(key.value.v) # 1 \/ key.rest = <<>> \/ key.rest[1] # ": "
            THEN ParseFailed
            ELSE LET r == ParseValue(Tail(key.rest))
                     items == Append(acc, <<key.value.v[1], r.value>>)
                 IN IF ~r.ok \/ r.rest = <<>> THEN ParseFailed
                    ELSE IF r.rest[1] = ", " THEN ParseItems(Tail(r.rest), items)
                    ELSE IF r.rest[1] = "}" THEN Parsed(PyDict(items), Tail(r.rest))
                    ELSE ParseFailed

\* What the content of a tool message parses back to.
ParsedContent(content) ==
    IF content.t # "str" THEN ParseFailed
    ELSE LET r == ParseValue(content.v)
         IN IF r.ok /\ r.rest = <<>> THEN r ELSE ParseFailed

\* A request for lookup_weather, in a script that registers it, with
\* well-formed arguments.
WellFormedWeatherCall(tool_call) ==
    /\ tool_call.function.name = "lookup_weather"
    /\ Registered(tool_call)
    /\ tool_call.function.arguments \in WeatherArguments

NonEmptyText(x) == x.t = "str" /\ x.v # <<>>

\* The scripts whose tools are written in Spanish.
SpanishTools ==
    {"spanish/function_calling_extended_errors", "spanish/function_calling_while_loop"}

\* The location the request asks about: its city, else its zip code, else
\* the placeholder.
ExpectedLocation(tool_call) ==
    LET arguments == json_loads(tool_call.function.arguments).value
        city_name == GetOrNone(arguments, "city_name")
        zip_code == GetOrNone(arguments, "zip_code")
    IN IF NonEmptyText(city_name) THEN city_name
       ELSE IF NonEmptyText(zip_code) THEN zip_code
       ELSE IF script \in SpanishTools THEN Str("desconocido") ELSE Str("unknown")

\* C25: a well-formed lookup_weather request always succeeds, and the
\* content of its tool message parses back to an object whose "location"
\* field ("ubicacion" where the tool is written in Spanish) is the request's
\* city_name when that is a non-empty text, zip_code given or not; else its
\* zip_code when that is a non-empty text; else the placeholder ("unknown",
\* "desconocido").  The handling of such a request raises nothing, the tool
\* runs with the decoded arguments, and a finished pass of a sequential
\* script holds exactly one tool message for it.
C25_WeatherLocationRoundTrip ==
    LET turn == Turn
    IN \A k \in 1..Len(turn) :
          WellFormedWeatherCall(turn[k]) =>
             /\ (script \notin ParallelScripts /\ n_requests = 1 /\ i = k) => pc # "raised"
             /\ (script \notin ParallelScripts /\ (n_requests >= 2 \/ (pc = "dispatch" /\ k < i))) =>
                   Cardinality(ToolMessagesFor(turn[k].id)) = 1
             /\ \A f \in 1..Len(futures) :
                   (futures[f].tool_call = turn[k] /\ futures[f].state = "done") =>
                      ~Raised(futures[f].outcome)
             /\ \A m \in ToolMessagesFor(turn[k].id) :
                   LET parsed == ParsedContent(messages[m].content)
                       key == IF script \in SpanishTools THEN "ubicacion" ELSE "location"
                   IN /\ parsed.ok
                      /\ parsed.value.t = "dict"
                      /\ key \in Keys(parsed.value)
                      /\ Get(parsed.value, key) = ExpectedLocation(turn[k])
                      /\ \E n \in 1..Len(invoked) :
                            invoked[n] = Invocation(turn[k],
                                            json_loads(turn[k].function.arguments).value)

\* A Spanish while-loop run that answered a request for the weather of
\* Sídney, zip code 2000: the content carries the city with its accent
\* escaped, and parses back to an object whose "ubicacion" is Sídney.
C25_Witness ==
    /\ script = "spanish/function_calling_while_loop"
    /\ Len(Turn) >= 1
    /\ Turn[1].function.arguments = Str("{\"city_name\": \"Sídney\", \"zip_code\": \"2000\"}")
    /\ ToolMessagesFor(Turn[1].id) = {Base + 2}
    /\ \E c \in 1..Len(messages[Base + 2].content.v) :
          messages[Base + 2].content.v[c] = "S\\u00eddney"
    /\ Get(ParsedContent(messages[Base + 2].content).value, "ubicacion") = Str("Sídney")

\* The outcome variant the call alone determines in the hardened dispatch.
Variant(tool_call) ==
    IF ~Registered(tool_call) THEN "ToolNotFound"
    ELSE IF MalformedArguments(tool_call) THEN "ArgumentDecodeError"
    ELSE IF ToolRaises(tool_call) THEN "ExecutionError"
    ELSE "Success"

\* The outcome variant a tool message shows: what its content parses back
\* to is one of the three diagnostic texts, or else a tool's result.
ShownVariant(content) ==
    LET parsed == ParsedContent(content)
        text == parsed.value.t = "str" /\ parsed.value.v # <<>>
    IN IF ~parsed.ok THEN "none"
       ELSE IF text /\ parsed.value.v[1] \in
                    {"ERROR: No implementation registered for tool '",
                     "ERROR: No hay implementación registrada para la tool '",
                     "ERROR: No hay implementación registrada para la herramienta '"}
       THEN "ToolNotFound"
       ELSE IF text /\ parsed.value.v[1] \in
                    {"Warning: Malformed JSON arguments received; proceeding with empty args",
                     "Warning: JSON arguments malformados; sigo con args vacíos",
                     "Advertencia: JSON de argumentos malformado; se continúa con argumentos vacíos"}
       THEN "ArgumentDecodeError"
       ELSE IF text /\ parsed.value.v[1] \in
                    {"Tool execution error in ", "Error ejecutando la tool ",
                     "Error ejecutando la herramienta "}
       THEN "ExecutionError"
       ELSE "Success"

\* C26: in the hardened scripts every handled call of a turn has exactly
\* one outcome, the one its own name and arguments determine: its one tool
\* message shows the not-found text for an unregistered name, the decode
\* warning for malformed arguments, the execution-error text that names its
\* tool when the tool raises, and otherwise the very value the tool returned
\* for its decoded arguments; what the calls before it in the turn produced
\* plays no part.  A message that shows a warning or the not-found text
\* belongs to a call whose tool did not run, and a call whose tool returned
\* has the result, never a diagnostic text.
C26_OneOutcomePerCall ==
    script \in HardenedScripts =>
        LET base == Base
            turn == Turn
        IN \A k \in 1..Len(turn) :
              (k < i \/ n_requests = 2) =>
                 LET content == messages[base + 1 + k].content
                     ran == \E n \in 1..Len(invoked) : invoked[n].id = turn[k].id
                 IN /\ ToolMessagesFor(turn[k].id) = {base + 1 + k}
                    /\ ShownVariant(content) = Variant(turn[k])
                    /\ ShownVariant(content) \in {"ToolNotFound", "ArgumentDecodeError"} => ~ran
                    /\ Variant(turn[k]) = "ExecutionError" =>
                          ParsedContent(content).value.v[2] = turn[k].function.name
                    /\ Variant(turn[k]) = "Success" =>
                          /\ ran
                          /\ ParsedContent(content).value
                               = Call(script, turn[k].function.name, DecodedArguments(turn[k])).value

\* A hardened run whose turn of two requests got a tool's result for the
\* first and the decode warning for the second.
C26_Witness ==
    /\ script \in HardenedScripts
    /\ n_requests = 2
    /\ Len(Turn) = 2
    /\ Variant(Turn[1]) = "Success"
    /\ Variant(Turn[2]) = "ArgumentDecodeError"
    /\ ShownVariant(messages[Base + 2].content) = "Success"
    /\ ShownVariant(messages[Base + 3].content) = "ArgumentDecodeError"
    /\ Len(invoked) = 1

\* C27: every request to the model endpoint carries the whole conversation
\* as it is at that moment and the script's tool descriptors.  The first
\* request carries the initial messages; the messages of each later request
\* are those of the request before it, followed by the assistant message of
\* the response in between with its tool-call requests, followed by the tool
\* messages of the dispatch pass in between and nothing else (in the
\* sequential scripts one per request of that assistant message, in order);
\* until the script appends again, the conversation is the one the last
\* request carried; and all requests of a run carry the same descriptors.
C27_RequestsCarryWholeConversation ==
    /\ Len(sent) = n_requests
    /\ \A k \in 1..Len(sent) : sent[k].tools = tools(script)
    /\ Len(sent) >= 1 =>
          /\ sent[1].messages = InitialMessages(script)
          /\ Len(messages) >= Len(sent[Len(sent)].messages)
          /\ SubSeq(messages, 1, Len(sent[Len(sent)].messages)) = sent[Len(sent)].messages
          /\ (pc \in {"inspect", "done"} \/ raised \in EndpointErrors) =>
                messages = sent[Len(sent)].messages
    /\ \A k \in 1..(Len(sent) - 1) :
          LET before == sent[k].messages
              after == sent[k + 1].messages
              assistant == after[Len(before) + 1]
          IN /\ Len(after) > Len(before)
             /\ SubSeq(after, 1, Len(before)) = before
             /\ assistant.role = "assistant"
             /\ assistant.tool_calls # <<>>
             /\ \A m \in (Len(before) + 2)..Len(after) :
                   /\ after[m].role = "tool"
                   /\ \E c \in 1..Len(assistant.tool_calls) :
                         assistant.tool_calls[c].id = after[m].tool_call_id
             /\ script \notin ParallelScripts =>
                   /\ Len(after) = Len(before) + 1 + Len(assistant.tool_calls)
                   /\ \A c \in 1..Len(assistant.tool_calls) :
                         after[Len(before) + 1 + c].tool_call_id = assistant.tool_calls[c].id

\* A while-loop run that sent three requests: the second carried the first
\* pass, the third both passes.
C27_Witness ==
    /\ script \in LoopScripts
    /\ Len(sent) = 3
    /\ Len(sent[1].messages) = Base
    /\ Len(sent[2].messages) = Base + 2
    /\ Len(sent[3].messages) = Base + 4
    /\ sent[3].messages[Base + 4].role = "tool"
    /\ sent[3].messages = messages

\* C28: the name-to-function dict and the tool descriptors are fixed before
\* the first request to the model and no step changes them: whenever a
\* request has been sent the dict is bound and maps the script's tools, no
\* step rebinds it, every request carries the same descriptors, and every
\* descriptor name is a name of the dict.
C28_RegistryFixedBeforeFirstRequest ==
    [][/\ n_requests >= 1 =>
             /\ registry.bound
             /\ registry.names = tool_mapping(script)
             /\ tools(script) \subseteq registry.names
       /\ registry' = registry
       /\ \A k \in 1..Len(sent') : sent'[k].tools = tools(script)]_vars

\* The texts of the decode warning: each says that the dispatch goes on with
\* empty arguments.
ProceedingTexts ==
    {"Warning: Malformed JSON arguments received; proceeding with empty args",
     "Warning: JSON arguments malformados; sigo con args vacíos",
     "Advertencia: JSON de argumentos malformado; se continúa con argumentos vacíos"}

\* The step of the hardened dispatch on a call whose arguments do not
\* decode: no tool body runs, and for a registered tool the one message
\* appended is the call's tool message with the warning as its content.
DecodeFailureStep ==
    (/\ script \in HardenedScripts
     /\ pc = "dispatch"
     /\ i <= Len(tool_calls)
     /\ MalformedArguments(tool_calls[i])) =>
        /\ invoked' = invoked
        /\ pc' = "dispatch"
        /\ i' = i + 1
        /\ Len(messages') = Len(messages) + 1
        /\ messages'[Len(messages')].tool_call_id = tool_calls[i].id
        /\ Registered(tool_calls[i]) =>
              LET parsed == ParsedContent(messages'[Len(messages')].content)
              IN /\ parsed.ok
                 /\ parsed.value.t = "str"
                 /\ Len(parsed.value.v) = 1
                 /\ parsed.value.v[1] \in ProceedingTexts

\* C29: in the hardened scripts the pass of the loop over a call whose
\* arguments fail to decode invokes no tool body: the step leaves the list
\* of invocations as it was and goes on to the next call, although the
\* warning it puts in the call's tool message says that it proceeds with
\* empty arguments.
C29_DecodeFailureInvokesNothing ==
    [][DecodeFailureStep]_vars

\* A hardened run whose turn asked a registered tool twice, first with
\* malformed and then with well-formed arguments: the first call got the
\* warning, and the only tool body that ran is the second call's.
C29_Witness ==
    /\ script \in HardenedScripts
    /\ Len(Turn) = 2
    /\ i = 3
    /\ Registered(Turn[1]) /\ MalformedArguments(Turn[1])
    /\ Registered(Turn[2]) /\ ~MalformedArguments(Turn[2])
    /\ messages[Base + 2].content \in WarningContents
    /\ Len(invoked) = 1
    /\ invoked[1].id = Turn[2].id

\* Every assistant message of msgs that carries tool-call requests is
\* followed, with only tool messages in between, by a tool message for each
\* of its request ids.
AllToolCallsAnswered(msgs) ==
    \A a \in 1..Len(msgs) :
        msgs[a].role = "assistant" =>
            \A c \in 1..Len(msgs[a].tool_calls) :
                \E m \in (a + 1)..Len(msgs) :
                    /\ msgs[m].role = "tool"
                    /\ msgs[m].tool_call_id = msgs[a].tool_calls[c].id
                    /\ \A j \in (a + 1)..m : msgs[j].role = "tool"

\* C30: in the hardened and the while-loop scripts no request goes to the
\* model endpoint with an unanswered tool call: in the conversation each
\* request carried, every assistant message with tool-call requests is
\* followed by a tool message for each of its ids, whatever failures the
\* calls of the run ended in.
C30_NoRequestWithUnansweredCall ==
    script \in HardenedScripts \cup LoopScripts =>
        \A k \in 1..Len(sent) : AllToolCallsAnswered(sent[k].messages)

\* A hardened run that sent its follow-up request after a turn whose first
\* call made the tool raise and whose second call named an unregistered
\* tool: the request carried a tool message for each of the two.
C30_Witness ==
    /\ script \in HardenedScripts
    /\ Len(sent) = 2
    /\ Len(Turn) = 2
    /\ Variant(Turn[1]) = "ExecutionError"
    /\ Variant(Turn[2]) = "ToolNotFound"
    /\ Len(sent[2].messages) = Base + 3
    /\ sent[2].messages[Base + 1].tool_calls = Turn
    /\ sent[2].messages[Base + 2].tool_call_id = Turn[1].id
    /\ sent[2].messages[Base + 3].tool_call_id = Turn[2].id

\* C31: when a parallel script has sent its final request, every call it
\* submitted to the pool for the turn has finished, and the conversation
\* that request carried holds, after the assistant message, a tool message
\* with the id of each submitted call: no call of the turn is still pending
\* in the pool once the final request is out.
C31_FinalRequestAfterPoolDrained ==
    (script \in ParallelScripts /\ Len(sent) = 2) =>
        /\ Len(completed) = Len(futures)
        /\ \A k \in 1..Len(futures) :
              /\ futures[k].state = "done"
              /\ \E m \in (Base + 2)..Len(sent[2].messages) :
                    /\ sent[2].messages[m].role = "tool"
                    /\ sent[2].messages[m].tool_call_id = futures[k].tool_call.id

\* A parallel run that sent its final request after a turn of two calls,
\* both submitted to the pool and both finished, the request carrying the
\* assistant message and the two tool messages.
C31_Witness ==
    /\ script \in ParallelScripts
    /\ Len(sent) = 2
    /\ Len(futures) = 2
    /\ Len(completed) = 2
    /\ Len(sent[2].messages) = Base + 3
    /\ sent[2].messages[Base + 3].role = "tool"

\* The tool messages a turn's requests determine, in the order the model
\* emitted the requests: one for each request that names a function of
\* available_functions, with the request's id and the JSON text of what the
\* function returns for the request's decoded arguments.
RECURSIVE ToolMessagesInEmissionOrder(_, _)
ToolMessagesInEmissionOrder(scr, calls) ==
    IF calls = <<>>
    THEN <<>>
    ELSE LET call == Head(calls)
             rest == ToolMessagesInEmissionOrder(scr, Tail(calls))
             returned == Call(scr, call.function.name,
                              json_loads(call.function.arguments).value)
         IN IF call.function.name \in tool_mapping(scr)
            THEN <<ToolMessage(call.id, Absent, json_dumps(returned.value, TRUE).value)>> \o rest
            ELSE rest

\* C32: the conversation a parallel script sends in its final request is
\* fixed by the model's response alone: it is the initial messages, the
\* assistant message, and then the tool messages of the response's requests
\* in the order the model emitted them, the same in every interleaving of
\* the pool workers and for every order in which they finish.
C32_FinalConversationFixedByResponse ==
    (script \in ParallelScripts /\ Len(sent) = 2) =>
        LET conversation == sent[2].messages
            base == Base
        IN /\ Len(conversation) > base
           /\ conversation =
                 InitialMessages(script)
                 \o <<conversation[base + 1]>>
                 \o ToolMessagesInEmissionOrder(script, conversation[base + 1].tool_calls)

\* A parallel run that sent its final request after a turn of two calls of
\* which the pool finished the second first: the request carried the first
\* call's tool message ahead of the second's.
C32_Witness ==
    /\ script \in ParallelScripts
    /\ Len(sent) = 2
    /\ Len(Turn) = 2
    /\ completed = <<Turn[2].id, Turn[1].id>>
    /\ sent[2].messages[Base + 2].tool_call_id = Turn[1].id
    /\ sent[2].messages[Base + 3].tool_call_id = Turn[2].id

\* C33: a parallel run that has ended, with the final answer or with an
\* exception, left no call of the pool without its tool message: every call
\* that was submitted (and that the pool therefore ran) has a tool message
\* with its id in the conversation, also when a later request of the turn
\* failed to decode or another call of the turn raised.
C33_NoOrphanInvocations ==
    (script \in ParallelScripts /\ pc \in {"done", "raised"}) =>
        \A k \in 1..Len(futures) :
            /\ futures[k].state = "done"
            /\ ToolMessagesFor(futures[k].tool_call.id) # {}

====
